---- MODULE Spec2Model ----
(***************************************************************************)
(* A model of the agent-hooks worker: the KV-backed peer store             *)
(* (peer-store.js: PeerStore), and the /knock and /inbox handlers of       *)
(* worker.js.  Every KV get/put a method awaits is one step of the calling *)
(* process, so that concurrent callers interleave exactly at the awaits.   *)
(***************************************************************************)
EXTENDS Integers, Sequences, FiniteSets, TLC

\* ------------------------------------------------------------------ bounds

\* Number of concurrent callers of the store (gateway instances).
NumProcs == 2
\* Date.now() runs over 0..MaxClock milliseconds in the store specifications.
MaxClock == 1
\* Number of mutating store calls one caller makes in a run (SpecSeq).
MaxCalls == 4
\* Number of mutating store calls concurrent callers make in a run (Spec).
MaxRaceCalls == 3
\* Number of /knock requests handled in SpecKnock.
MaxKnocks == 7
MaxFloodKnocks == 6
MaxPublicCalls == 2
MaxPublicKnocks == 1
MaxAdminCalls == 3
\* Number of /knock requests handled in SpecProbe.
MaxProbes == 2
\* Number of admin and /inbox requests handled in SpecWorker.
MaxWorkerCalls == 3
\* Number of /knock requests handled in SpecWorker.
MaxWorkerKnocks == 1
\* Number of /knock requests and of admin calls handled in SpecVouch.
MaxVouchKnocks == 6
MaxVouchCalls == 3
\* Number of mutating calls concurrent callers make in a run (SpecStatus).
MaxStatusCalls == 2
\* Number of reading calls made in SpecDecay.
MaxDecayCalls == 1
\* Largest staleness threshold asked for, in days (SpecDecay).
MaxThreshold == 2

\* ------------------------------------------------------------------ values

\* JS null / undefined, and a KV miss.
NULL == "null"

Peers == {"a.example"}
\* A domain that is never added to the store.
Stranger == "x.example"
Domains == Peers \cup {Stranger}

\* Bearer secrets as sequences of char codes: "Aa", "BB" (same digest as
\* "Aa") and "zzzzzzz" (overflows 32 bits while hashing).
Tokens == {<<65, 97>>, <<66, 66>>, <<122, 122, 122, 122, 122, 122, 122>>}

Procs == 1 .. NumProcs

\* Source addresses of knocks ("unknown": no cf-connecting-ip header).
MainIp == "198.51.100.7"
Ips == {MainIp, "unknown"}
\* The single caller of the sequential specifications.
Caller == CHOOSE q \in Procs : \A r \in Procs : q <= r

\* ------------------------------------------------------------------ hashToken

\* A 32-bit value is held as two 16-bit limbs <<hi, lo>> (its unsigned value
\* is hi * 2^16 + lo), because TLC's integers are themselves 32 bits wide.
Limb == 65536

\* hash = ((hash << 5) - hash) + char; hash = hash & hash: 31 * hash + char,
\* wrapped to 32 bits.
HashStep(h, char) ==
  LET lo == 31 * h[2] + char
      hi == 31 * h[1] + (lo \div Limb)
  IN  <<hi % Limb, lo % Limb>>

RECURSIVE HashLoop(_, _)
\* The loop of hashToken over the char codes of the token.
HashLoop(h, token) ==
  IF token = <<>> THEN h ELSE HashLoop(HashStep(h, Head(token)), Tail(token))

\* Math.abs of the signed 32-bit value: negative when bit 31 is set.
Abs32(h) ==
  IF h[1] < Limb \div 2 THEN h
  ELSE IF h[2] = 0 THEN <<(Limb - h[1]) % Limb, 0>>
  ELSE <<Limb - 1 - h[1], Limb - h[2]>>

RECURSIVE HexDigits(_)
\* Number.prototype.toString(16) of a non-negative integer, as digit values.
HexDigits(n) ==
  IF n < 16 THEN <<n>> ELSE Append(HexDigits(n \div 16), n % 16)

\* The four hex digits of a low limb below a non-zero high limb.
Hex4(n) == << n \div 4096, (n \div 256) % 16, (n \div 16) % 16, n % 16 >>

\* 'hash:' + Math.abs(hash).toString(16): the digest is the hex digit string.
hashToken(token) ==
  LET a == Abs32(HashLoop(<<0, 0>>, token))
  IN  IF a[1] = 0 THEN HexDigits(a[2]) ELSE HexDigits(a[1]) \o Hex4(a[2])

\* ------------------------------------------------------------------ state

VARIABLES
  meta,       \* tap:peers:<p>:meta      : the peer record, or NULL
  statusRec,  \* tap:peers:<p>:status    : "pending" | "active" | "revoked", or NULL
  endpoints,  \* tap:peers:<p>:endpoints : the endpoint array, or NULL
  keys,       \* tap:peers:<p>:keys:key_<ms> : key records, NULL where absent
  rl,         \* ratelimit:<ip>          : [hits, expires], NoRec where absent
  knocks,     \* knock:<now>:<uuid>      : the knock log records, in write order
  hook,       \* the last notification posted to LOCAL_HOOK_URL, NoRec if none
  now,        \* Date.now()
  calls,      \* mutating store calls the run may still make
  pc,         \* per caller: where its current call is suspended
  req,        \* per caller: arguments and locals of its current call
  res         \* per caller: what its last completed call returned

vars == <<meta, statusRec, endpoints, keys, rl, knocks, hook, now, calls, pc, req, res>>

kvStore == <<meta, statusRec, endpoints, keys>>
gateway == <<rl, knocks, hook>>

KeyIds == 0 .. MaxClock

\* A KV miss where a JSON record is read; a missing timestamp; no key id.
NoRec == [absent |-> TRUE]
NoTime == -1
NoKey == -1

\* ------------------------------------------------------------------ data models

createPeer(peerId, displayName, eps, t) ==
  [peer_id |-> peerId, display_name |-> displayName, endpoints |-> eps,
   status |-> "pending", created_at |-> t, updated_at |-> t,
   last_contact |-> NoTime, downgrade_date |-> NoTime, version |-> 1]

createKey(keyId, bearerToken, t) ==
  [key_id |-> keyId, token_hash |-> hashToken(bearerToken),
   status |-> "active", created_at |-> t]

\* ------------------------------------------------------------------ KV puts

PutMeta(m)      == [k |-> "meta",      id |-> NoKey, r |-> m,     s |-> ""]
PutStatus(s)    == [k |-> "status",    id |-> NoKey, r |-> NoRec, s |-> s]
PutEndpoints(e) == [k |-> "endpoints", id |-> NoKey, r |-> NoRec, s |-> e]
PutKey(id, kr)  == [k |-> "key",       id |-> id,    r |-> kr,    s |-> ""]

\* kv.put of one record of peer p: atomic per key, last writer wins.
KvPut(p, put) ==
  /\ meta' = IF put.k = "meta" THEN [meta EXCEPT ![p] = put.r] ELSE meta
  /\ statusRec' = IF put.k = "status" THEN [statusRec EXCEPT ![p] = put.s]
                  ELSE statusRec
  /\ endpoints' = IF put.k = "endpoints" THEN [endpoints EXCEPT ![p] = put.s]
                  ELSE endpoints
  /\ keys' = IF put.k = "key" THEN [keys EXCEPT ![p][put.id] = put.r] ELSE keys

\* ------------------------------------------------------------------ callers

NoRes == [op |-> "none", peer |-> NULL, token |-> <<>>, ok |-> FALSE,
          info |-> "", key_id |-> NoKey, http |-> 0]

IdleReq == [op |-> "none", peer |-> NULL, token |-> <<>>, oldKey |-> NoKey,
            meta |-> NoRec, key |-> NoRec, old |-> NoRec, keyId |-> NoKey, eps |-> NULL,
            scan |-> <<>>, pend |-> {}, next |-> "idle", ret |-> NoRes,
            ip |-> NULL, at |-> NoTime, payload |-> NoRec, hits |-> <<>>,
            data |-> NoRec, hookUrl |-> FALSE]

\* handlePeersAdmin: the HTTP status of a store result.
Http(op, ok) ==
  CASE op = "addPeer" -> IF ok THEN 201 ELSE 409
    [] op \in {"activatePeer", "revokePeer", "rotateKey", "downgradeTrust"} ->
         IF ok THEN 200 ELSE 404
    [] OTHER -> 0

Result(op, p, tok, ok, info, keyId) ==
  [op |-> op, peer |-> p, token |-> tok, ok |-> ok, info |-> info,
   key_id |-> keyId, http |-> Http(op, ok)]

\* The HTTP response of a gateway handler.
Response(op, p, tok, http, info) ==
  [op |-> op, peer |-> p, token |-> tok, ok |-> http = 200, info |-> info,
   key_id |-> NoKey, http |-> http]

\* The call returns r to its caller.
Finish(q, r) ==
  /\ pc' = [pc EXCEPT ![q] = "idle"]
  /\ req' = [req EXCEPT ![q] = IdleReq]
  /\ res' = [res EXCEPT ![q] = r]

\* The call is suspended at an await, with locals rq.
Suspend(q, label, rq) ==
  /\ pc' = [pc EXCEPT ![q] = label]
  /\ req' = [req EXCEPT ![q] = rq]
  /\ res' = [res EXCEPT ![q] = NoRes]

\* One more mutating call is made, while the run's budget lasts.
Called == calls > 0 /\ calls' = calls - 1

\* ------------------------------------------------------------------ PeerStore

\* An addPeer that writes no key record.
addPeerPutsNoKey(p, displayName, eps, bearerToken, t) ==
  { PutMeta(createPeer(p, displayName, eps, t)),
    PutStatus("pending"),
    PutEndpoints(eps) }

\* addPeer: the four records written by its Promise.all.
addPeerPuts(p, displayName, eps, bearerToken, t) ==
  { PutMeta(createPeer(p, displayName, eps, t)),
    PutStatus("pending"),
    PutEndpoints(eps),
    PutKey(t, createKey(t, bearerToken, t)) }

\* A check that never finds the peer.
peerExistsNever(existing) == FALSE

\* addPeer: `if (existing)` on the meta record read from the KV.
peerExists(existing) == existing # NoRec

\* addPeer up to its first await: the existence check on the meta record.
addPeerCall(q, p, displayName, eps, bearerToken) ==
  /\ pc[q] = "idle"
  /\ Called
  /\ IF peerExists(meta[p])
       THEN Finish(q, Result("addPeer", p, <<>>, FALSE, "peer_exists", NoKey))
       ELSE Suspend(q, "puts",
              [IdleReq EXCEPT !.op = "addPeer", !.peer = p, !.token = bearerToken,
                 !.pend = addPeerPuts(p, displayName, eps, bearerToken, now),
                 !.ret = Result("addPeer", p, <<>>, TRUE, "pending", now)])
  /\ UNCHANGED <<kvStore, gateway, now>>

\* One put of a Promise.all (or a single awaited put) completes; the puts of
\* one Promise.all complete in any order.  After the last one the call goes on
\* to req.next, or returns req.ret.
PutStep(q) ==
  /\ pc[q] = "puts"
  /\ \E put \in req[q].pend :
       /\ KvPut(req[q].peer, put)
       /\ IF req[q].pend # {put}
            THEN /\ req' = [req EXCEPT ![q].pend = @ \ {put}]
                 /\ UNCHANGED <<pc, res>>
            ELSE IF req[q].next = "idle"
              THEN Finish(q, req[q].ret)
              ELSE /\ pc' = [pc EXCEPT ![q] = req[q].next]
                   /\ req' = [req EXCEPT ![q].pend = {}]
                   /\ UNCHANGED res
  /\ UNCHANGED <<gateway, now, calls>>

\* activatePeer: the meta record it writes back.
activatedMeta(m, t) ==
  [m EXCEPT !.status = "active", !.updated_at = t, !.version = @ + 1]

\* activatePeer: the two records written by its Promise.all.
activatePeerPuts(m, t) == { PutMeta(activatedMeta(m, t)), PutStatus("active") }

activatePeerCall(q, p) ==
  /\ pc[q] = "idle"
  /\ Called
  /\ IF meta[p] = NoRec
       THEN Finish(q, Result("activatePeer", p, <<>>, FALSE, "peer_not_found", NoKey))
       ELSE Suspend(q, "puts",
              [IdleReq EXCEPT !.op = "activatePeer", !.peer = p, !.meta = meta[p],
                 !.pend = activatePeerPuts(meta[p], now),
                 !.ret = Result("activatePeer", p, <<>>, TRUE, "active", NoKey)])
  /\ UNCHANGED <<kvStore, gateway, now>>

\* A write-back that leaves the status as it was read.
revokedMetaKeepsStatus(m, t) == [m EXCEPT !.updated_at = t, !.version = @ + 1]

\* revokePeer: the meta record it writes back.
revokedMeta(m, t) ==
  [m EXCEPT !.status = "revoked", !.updated_at = t, !.version = @ + 1]

\* A revocation that writes the meta record only.
revokePeerPutsMetaOnly(m, t) == { PutMeta(revokedMeta(m, t)) }

\* revokePeer: the two records written by its Promise.all.
revokePeerPuts(m, t) == { PutMeta(revokedMeta(m, t)), PutStatus("revoked") }

revokePeerCall(q, p) ==
  /\ pc[q] = "idle"
  /\ Called
  /\ IF meta[p] = NoRec
       THEN Finish(q, Result("revokePeer", p, <<>>, FALSE, "peer_not_found", NoKey))
       ELSE Suspend(q, "puts",
              [IdleReq EXCEPT !.op = "revokePeer", !.peer = p, !.meta = meta[p],
                 !.pend = revokePeerPuts(meta[p], now),
                 !.ret = Result("revokePeer", p, <<>>, TRUE, "revoked", NoKey)])
  /\ UNCHANGED <<kvStore, gateway, now>>

\* downgradeTrust: the status it moves the peer to, and the meta it writes back.
downgradeStatus(hard) == IF hard THEN "revoked" ELSE "pending"

downgradedMeta(m, hard, t) ==
  [m EXCEPT !.status = downgradeStatus(hard), !.updated_at = t,
            !.version = @ + 1, !.downgrade_date = t]

downgradeTrustCall(q, p, hard) ==
  /\ pc[q] = "idle"
  /\ Called
  /\ IF meta[p] = NoRec
       THEN Finish(q, Result("downgradeTrust", p, <<>>, FALSE, "peer_not_found", NoKey))
       ELSE Suspend(q, "puts",
              [IdleReq EXCEPT !.op = "downgradeTrust", !.peer = p, !.meta = meta[p],
                 !.pend = { PutMeta(downgradedMeta(meta[p], hard, now)),
                            PutStatus(downgradeStatus(hard)) },
                 !.ret = Result("downgradeTrust", p, <<>>, TRUE,
                                downgradeStatus(hard), NoKey)])
  /\ UNCHANGED <<kvStore, gateway, now>>

\* recordContact: the meta record it writes back.
contactedMeta(m, t) ==
  [m EXCEPT !.last_contact = t, !.updated_at = t, !.version = @ + 1]

recordContactCall(q, p) ==
  /\ pc[q] = "idle"
  /\ Called
  /\ IF meta[p] = NoRec
       THEN Finish(q, Result("recordContact", p, <<>>, FALSE, "peer_not_found", NoKey))
       ELSE Suspend(q, "puts",
              [IdleReq EXCEPT !.op = "recordContact", !.peer = p, !.meta = meta[p],
                 !.pend = { PutMeta(contactedMeta(meta[p], now)) },
                 !.ret = Result("recordContact", p, <<>>, TRUE, "contact", NoKey)])
  /\ UNCHANGED <<kvStore, gateway, now>>

\* The updates a caller passes to updatePeer ("" / NULL: field not given).
Updates == { [display_name |-> "B", endpoints |-> NULL],
             [display_name |-> "", endpoints |-> "e2"] }

\* updatePeer: the meta record it writes back.
updatedMeta(m, updates, t) ==
  [m EXCEPT !.display_name = IF updates.display_name # "" THEN updates.display_name ELSE @,
            !.endpoints = IF updates.endpoints # NULL THEN updates.endpoints ELSE @,
            !.updated_at = t, !.version = @ + 1]

\* updatePeer: the endpoints record is put (and awaited) before the meta record.
updatePeerCall(q, p, updates) ==
  /\ pc[q] = "idle"
  /\ Called
  /\ IF meta[p] = NoRec
       THEN Finish(q, Result("updatePeer", p, <<>>, FALSE, "peer_not_found", NoKey))
       ELSE LET rq == [IdleReq EXCEPT !.op = "updatePeer", !.peer = p, !.meta = meta[p],
                         !.ret = Result("updatePeer", p, <<>>, TRUE, "updated", NoKey)]
                m2 == updatedMeta(meta[p], updates, now)
            IN  IF updates.endpoints # NULL
                  THEN Suspend(q, "puts",
                         [rq EXCEPT !.pend = { PutEndpoints(updates.endpoints) },
                                    !.next = "upd_meta", !.meta = m2])
                  ELSE Suspend(q, "puts", [rq EXCEPT !.pend = { PutMeta(m2) }])
  /\ UNCHANGED <<kvStore, gateway, now>>

updatePeerPutMeta(q) ==
  /\ pc[q] = "upd_meta"
  /\ KvPut(req[q].peer, PutMeta(req[q].meta))
  /\ Finish(q, req[q].ret)
  /\ UNCHANGED <<gateway, now, calls>>

\* rotateKey: the id of the new key, `key_${Date.now()}`.
newKeyId(t) == t

\* rotateKey: the old key as it is written back.
retiringKey(oldKey) == [oldKey EXCEPT !.status = "retiring"]

\* A rotateKey that does not look for the peer first.
rotateKeyCallUnchecked(q, p, newBearerToken, oldKeyId) ==
  /\ pc[q] = "idle"
  /\ Called
  /\ Suspend(q, IF oldKeyId # NoKey THEN "rot_getold" ELSE "rot_putnew",
       [IdleReq EXCEPT !.op = "rotateKey", !.peer = p, !.token = newBearerToken,
          !.oldKey = oldKeyId, !.meta = meta[p], !.keyId = newKeyId(now),
          !.key = createKey(newKeyId(now), newBearerToken, now)])
  /\ UNCHANGED <<kvStore, gateway, now>>

\* rotateKey up to its first await; the new key is created right after it.
rotateKeyCall(q, p, newBearerToken, oldKeyId) ==
  /\ pc[q] = "idle"
  /\ Called
  /\ IF meta[p] = NoRec
       THEN Finish(q, Result("rotateKey", p, <<>>, FALSE, "peer_not_found", NoKey))
       ELSE Suspend(q, IF oldKeyId # NoKey THEN "rot_getold" ELSE "rot_putnew",
              [IdleReq EXCEPT !.op = "rotateKey", !.peer = p, !.token = newBearerToken,
                 !.oldKey = oldKeyId, !.meta = meta[p], !.keyId = newKeyId(now),
                 !.key = createKey(newKeyId(now), newBearerToken, now)])
  /\ UNCHANGED <<kvStore, gateway, now>>

\* rotateKey: get of the old key.
rotateKeyGetOld(q) ==
  /\ pc[q] = "rot_getold"
  /\ pc' = [pc EXCEPT ![q] = IF keys[req[q].peer][req[q].oldKey] # NoRec
                               THEN "rot_putold" ELSE "rot_putnew"]
  /\ req' = [req EXCEPT ![q].old = keys[req[q].peer][req[q].oldKey]]
  /\ UNCHANGED <<kvStore, gateway, now, calls, res>>

\* rotateKey: put of the old key, marked retiring.
rotateKeyPutOld(q) ==
  /\ pc[q] = "rot_putold"
  /\ KvPut(req[q].peer, PutKey(req[q].oldKey, retiringKey(req[q].old)))
  /\ pc' = [pc EXCEPT ![q] = "rot_putnew"]
  /\ UNCHANGED req
  /\ UNCHANGED <<gateway, now, calls, res>>

\* rotateKey: put of the new key; the meta read at the start is then stamped
\* and its version bumped.
rotateKeyPutNew(q) ==
  /\ pc[q] = "rot_putnew"
  /\ KvPut(req[q].peer, PutKey(req[q].keyId, req[q].key))
  /\ pc' = [pc EXCEPT ![q] = "rot_putmeta"]
  /\ req' = [req EXCEPT ![q].meta = [@ EXCEPT !.updated_at = now, !.version = @ + 1]]
  /\ UNCHANGED <<gateway, now, calls, res>>

\* rotateKey: put of the meta record, and the return.
rotateKeyPutMeta(q) ==
  /\ pc[q] = "rot_putmeta"
  /\ KvPut(req[q].peer, PutMeta(req[q].meta))
  /\ Finish(q, Result("rotateKey", req[q].peer, <<>>, TRUE,
                      "rotated", req[q].keyId))
  /\ UNCHANGED <<gateway, now, calls>>

\* revokeKey: the key as it is written back.
revokedKey(key) == [key EXCEPT !.status = "revoked"]

revokeKeyCall(q, p, keyId) ==
  /\ pc[q] = "idle"
  /\ Called
  /\ IF keys[p][keyId] = NoRec
       THEN Finish(q, Result("revokeKey", p, <<>>, FALSE, "key_not_found", keyId))
       ELSE Suspend(q, "puts",
              [IdleReq EXCEPT !.op = "revokeKey", !.peer = p,
                 !.pend = { PutKey(keyId, revokedKey(keys[p][keyId])) },
                 !.ret = Result("revokeKey", p, <<>>, TRUE, "revoked", keyId)])
  /\ UNCHANGED <<kvStore, gateway, now>>

RECURSIVE Ascending(_)
\* kv.list returns the names in lexicographic order: key_<ms> by ms.
Ascending(S) ==
  IF S = {} THEN <<>>
  ELSE LET m == CHOOSE x \in S : \A y \in S : x <= y
       IN  <<m>> \o Ascending(S \ {m})

\* A check that refuses revoked peers only.
statusAllowsUnlessRevoked(status) == status # "revoked"

\* validateToken: the fail-closed check on the status record.
statusAllows(status) == status = "active"

\* validateToken: whether a key read from the KV authenticates the token.
keyMatches(key, token) ==
  IF key = NoRec THEN FALSE
  ELSE /\ key.status \in {"active", "retiring"}
       /\ key.token_hash = hashToken(token)

\* validateToken up to the await of the key listing.
validateTokenCall(q, p, token) ==
  /\ pc[q] = "idle"
  /\ IF ~statusAllows(statusRec[p])
       THEN Finish(q, Result("validateToken", p, token, FALSE, "peer_not_active", NoKey))
       ELSE Suspend(q, "val_list",
              [IdleReq EXCEPT !.op = "validateToken", !.peer = p, !.token = token])
  /\ UNCHANGED <<kvStore, gateway, now, calls>>

\* validateToken: kv.list of the peer's keys.
validateTokenList(q) ==
  /\ pc[q] = "val_list"
  /\ LET names == Ascending({id \in KeyIds : keys[req[q].peer][id] # NoRec})
     IN  IF names = <<>>
           THEN Finish(q, Result("validateToken", req[q].peer, req[q].token,
                                 FALSE, "invalid_token", NoKey))
           ELSE /\ pc' = [pc EXCEPT ![q] = "val_scan"]
                /\ req' = [req EXCEPT ![q].scan = names]
                /\ UNCHANGED res
  /\ UNCHANGED <<kvStore, gateway, now, calls>>

\* validateToken: get of the next listed key; the first match wins.
validateTokenGetKey(q) ==
  /\ pc[q] = "val_scan"
  /\ LET key == keys[req[q].peer][Head(req[q].scan)]
     IN  IF keyMatches(key, req[q].token)
           THEN Finish(q, Result("validateToken", req[q].peer, req[q].token,
                                 TRUE, key.status, key.key_id))
           ELSE IF Len(req[q].scan) = 1
             THEN Finish(q, Result("validateToken", req[q].peer, req[q].token,
                                   FALSE, "invalid_token", NoKey))
             ELSE /\ req' = [req EXCEPT ![q].scan = Tail(@)]
                  /\ UNCHANGED <<pc, res>>
  /\ UNCHANGED <<kvStore, gateway, now, calls>>

\* ------------------------------------------------------------------ the clock

\* A millisecond passes.
TickMs ==
  /\ now < MaxClock
  /\ now' = now + 1
  /\ UNCHANGED <<kvStore, gateway, calls, pc, req, res>>

\* ------------------------------------------------------------------ POST /inbox

\* env.SHARED_SECRET, and a request without an authorization header.
SharedSecret == <<83>>
NoAuth == <<>>

\* What the authorization header of an inbox request carries.
Bearers == {NoAuth, SharedSecret} \cup Tokens

\* Bodies of inbox requests: a message of each sender, an unparseable body,
\* a message without a body.
InboxPayloads ==
  { [parses |-> TRUE, from |-> d, body |-> "hi"] : d \in Domains }
    \cup { [parses |-> FALSE, from |-> NULL, body |-> NULL],
           [parses |-> TRUE, from |-> "a.example", body |-> NULL] }

\* A check that admits any bearer presented.
inboxAuthorizedAnyBearer(auth) == auth # NoAuth

\* handleInbox: the check of the authorization header.
inboxAuthorized(auth) == auth # NoAuth /\ auth = SharedSecret

\* handleInbox up to the first KV await of store.recordContact(payload.from).
handleInboxCall(q, auth, payload, hookUrl, kvUp) ==
  /\ pc[q] = "idle"
  /\ Called
  /\ IF ~inboxAuthorized(auth)
       THEN Finish(q, Response("inbox", NULL, auth, 401, "Unauthorized"))
     ELSE IF ~payload.parses
       THEN Finish(q, Response("inbox", NULL, auth, 400, "Bad JSON"))
     ELSE IF payload.from = NULL \/ payload.body = NULL
       THEN Finish(q, Response("inbox", NULL, auth, 400, "Invalid payload"))
     ELSE LET rq == [IdleReq EXCEPT !.op = "inbox", !.peer = payload.from,
                                    !.token = auth, !.payload = payload,
                                    !.hookUrl = hookUrl]
          IN  IF ~kvUp \/ meta[payload.from] = NoRec
                THEN Suspend(q, "in_fwd", rq)
                ELSE Suspend(q, "puts",
                       [rq EXCEPT !.pend = { PutMeta(contactedMeta(meta[payload.from], now)) },
                                  !.next = "in_fwd"])
  /\ UNCHANGED <<kvStore, gateway, now>>

\* handleInbox: the text posted to LOCAL_HOOK_URL.
inboxNotification(payload) ==
  [kind |-> "inbox", from |-> payload.from, body |-> payload.body]

\* A response that reports the missing hook to the sender.
inboxDeliveredIfHook(rq) ==
  Response("inbox", rq.peer, rq.token, IF rq.hookUrl THEN 200 ELSE 502,
           IF rq.hookUrl THEN "delivered" ELSE "not forwarded")

\* handleInbox: the 200 response.
inboxDelivered(rq) == Response("inbox", rq.peer, rq.token, 200, "delivered")

\* handleInbox after recordContact: with LOCAL_HOOK_URL set the message is
\* posted and the handler awaits the fetch; without it the handler responds.
handleInboxForward(q) ==
  /\ pc[q] = "in_fwd"
  /\ IF req[q].hookUrl
       THEN /\ hook' = inboxNotification(req[q].payload)
            /\ pc' = [pc EXCEPT ![q] = "in_fetch"]
            /\ UNCHANGED <<req, res>>
       ELSE /\ hook' = hook
            /\ Finish(q, inboxDelivered(req[q]))
  /\ UNCHANGED <<kvStore, rl, knocks, now, calls>>

\* The awaited fetch of handleInbox settles: it resolves, or it throws and
\* the catch logs it; either way the handler goes on to the 200 response.
\* The fetch is given no signal and no timeout: only the collaborator's
\* answer, or the failure of the connection, settles it.
handleInboxFetchSettles(q) ==
  /\ pc[q] = "in_fetch"
  /\ Finish(q, inboxDelivered(req[q]))
  /\ UNCHANGED <<kvStore, gateway, now, calls>>

\* One step of an inbox request.
InboxStep(q) ==
  \/ \E auth \in Bearers, payload \in InboxPayloads, hookUrl \in BOOLEAN,
        kvUp \in BOOLEAN :
       handleInboxCall(q, auth, payload, hookUrl, kvUp)
  \/ handleInboxForward(q)
  \/ handleInboxFetchSettles(q)

\* ------------------------------------------------------------------ POST /knock

Minute == 60 * 1000
FiveMinutes == 5 * 60 * 1000
Hour == 3600000
\* expirationTtl of the rate-limit entry (3600 seconds), in milliseconds.
RateLimitTtl == 3600 * 1000

\* The instants Date.now() takes in SpecKnock.
Instants == {0, 59 * Minute, Hour - 1, Hour, Hour + 1}

\* A knock that passes validation and offers nothing.
PlainKnock ==
  [parses |-> TRUE, type |-> "knock", from |-> Stranger, to |-> "ator.stumason.dev",
   timestamp |-> "iso", skew |-> 0, nonce |-> "n1",
   referrer |-> NULL, reason |-> NULL, upgrade_token |-> NULL]

\* The reciprocal knock of a peer, with an upgrade token.
UpgradeKnock ==
  [PlainKnock EXCEPT !.from = "a.example", !.referrer = "b.example",
                     !.reason = "hello", !.upgrade_token = "tok"]

\* Knocks that fail one check each: the body does not parse (no field is
\* read), the type is wrong, the nonce is missing, the timestamp is stale.
BadKnocks ==
  { [parses |-> FALSE, type |-> NULL, from |-> NULL, to |-> NULL,
     timestamp |-> NULL, skew |-> 0, nonce |-> NULL,
     referrer |-> NULL, reason |-> NULL, upgrade_token |-> NULL],
    [PlainKnock EXCEPT !.type = "message"],
    [PlainKnock EXCEPT !.nonce = NULL],
    [PlainKnock EXCEPT !.skew = 0 - (FiveMinutes + 1)] }

KnockPayloads == {PlainKnock, UpgradeKnock} \cup BadKnocks

\* A validation that waives the required fields for a knock with a referrer.
knockRejectionUnlessVouched(payload) ==
  IF ~payload.parses THEN "bad_json"
  ELSE IF payload.referrer # NULL THEN ""
  ELSE IF payload.nonce = NULL THEN "missing_fields"
  ELSE ""

\* A validation that rejects a timestamp exactly five minutes off.
knockRejectionStrictSkew(payload) ==
  IF ~payload.parses THEN "bad_json"
  ELSE IF payload.type # "knock" THEN "invalid_type"
  ELSE IF \/ payload.from = NULL \/ payload.to = NULL
          \/ payload.timestamp = NULL \/ payload.nonce = NULL
    THEN "missing_fields"
  ELSE IF \/ payload.timestamp = "garbage"
          \/ (IF payload.skew < 0 THEN 0 - payload.skew ELSE payload.skew) >= FiveMinutes
    THEN "bad_timestamp"
  ELSE ""

\* A validation that looks at the timestamp before the required fields.
knockRejectionTimestampFirst(payload) ==
  IF ~payload.parses THEN "bad_json"
  ELSE IF payload.type # "knock" THEN "invalid_type"
  ELSE IF \/ payload.timestamp = "garbage"
          \/ (IF payload.skew < 0 THEN 0 - payload.skew ELSE payload.skew) > FiveMinutes
    THEN "bad_timestamp"
  ELSE IF \/ payload.from = NULL \/ payload.to = NULL
          \/ payload.timestamp = NULL \/ payload.nonce = NULL
    THEN "missing_fields"
  ELSE ""

\* handleKnock: the first validation check the payload fails, "" if none.
\* payload.timestamp is NULL, "garbage" (NaN date) or "iso", and then the
\* date it denotes is now + skew.
knockRejection(payload) ==
  IF ~payload.parses THEN "bad_json"
  ELSE IF payload.type # "knock" THEN "invalid_type"
  ELSE IF \/ payload.from = NULL \/ payload.to = NULL
          \/ payload.timestamp = NULL \/ payload.nonce = NULL
    THEN "missing_fields"
  ELSE IF \/ payload.timestamp = "garbage"
          \/ (IF payload.skew < 0 THEN 0 - payload.skew ELSE payload.skew) > FiveMinutes
    THEN "bad_timestamp"
  ELSE ""

\* A record whose upgrade flag is never set.
knockRecordUnflagged(data) ==
  [ip |-> data.ip, from |-> data.from, to |-> data.to, referrer |-> data.referrer,
   reason |-> data.reason, nonce |-> data.nonce, timestamp |-> data.now,
   status |-> data.status, rejection_reason |-> data.rejection_reason,
   has_upgrade_token |-> FALSE]

\* logKnock: the record written from the data it is passed.
knockRecord(data) ==
  [ip |-> data.ip, from |-> data.from, to |-> data.to, referrer |-> data.referrer,
   reason |-> data.reason, nonce |-> data.nonce, timestamp |-> data.now,
   status |-> data.status, rejection_reason |-> data.rejection_reason,
   has_upgrade_token |-> data.upgrade_token # NULL]

\* handleKnock: what a reject path passes to logKnock (absent fields NULL).
rejectedData(ip, t, from, why) ==
  [ip |-> ip, now |-> t, from |-> from, to |-> NULL, referrer |-> NULL,
   reason |-> why, nonce |-> NULL, upgrade_token |-> NULL,
   status |-> "rejected", rejection_reason |-> NULL]

\* handleKnock: what the accept path passes to logKnock.
acceptedData(ip, t, payload) ==
  [ip |-> ip, now |-> t, from |-> payload.from, to |-> payload.to,
   referrer |-> payload.referrer, reason |-> payload.reason, nonce |-> payload.nonce,
   upgrade_token |-> IF payload.upgrade_token # NULL THEN "[REDACTED]" ELSE NULL,
   status |-> "accepted", rejection_reason |-> NULL]

\* knockError(status, message).
knockError(status, message) == Response("knock", NULL, <<>>, status, message)

\* Number of knocks of a run that are not the plain knock of the first
\* source address.
MaxOtherKnocks == 1

\* The logged knocks that were not plain knocks of the first source address.
OtherKnocks ==
  Cardinality({ i \in DOMAIN knocks :
                  \/ knocks[i].ip # MainIp
                  \/ knocks[i].from # Stranger
                  \/ knocks[i].reason \in {"invalid_type", "missing_fields", "bad_timestamp"} })

\* A response that names the failed check.
rejectionResponseDetailed(why) == knockError(400, why)

\* handleKnock: what every validation reject path returns.
rejectionResponse(why) == knockError(400, "Bad request.")

\* handleKnock up to its first KV await: the source address, the time, the
\* parse of the body and the validation of the fields.
handleKnockCall(q, ip, payload, hookUrl) ==
  /\ pc[q] = "idle"
  /\ LET why == knockRejection(payload)
         rq == [IdleReq EXCEPT !.op = "knock", !.ip = ip, !.at = now,
                               !.payload = payload, !.hookUrl = hookUrl]
     IN  IF why # ""
           THEN Suspend(q, "knock_log",
                  [rq EXCEPT !.data = rejectedData(ip, now, payload.from, why),
                             !.ret = rejectionResponse(why)])
           ELSE Suspend(q, "knock_rlget", rq)
  /\ UNCHANGED <<kvStore, gateway, now, calls>>

\* KV get of an entry put with an expirationTtl.
kvGetLive(entry, t) ==
  IF entry = NoRec THEN NoRec
  ELSE IF t >= entry.expires THEN NoRec ELSE entry

\* handleKnock: the hits of the stored entry that are kept.
RECURSIVE recentHits(_, _)
recentHits(hits, hourAgo) ==
  IF hits = <<>> THEN <<>>
  ELSE IF Head(hits) > hourAgo
    THEN <<Head(hits)>> \o recentHits(Tail(hits), hourAgo)
    ELSE recentHits(Tail(hits), hourAgo)

\* 5 knocks per hour.
KnockLimit == 5

\* A limit that lets one more through.
overLimitAbove(hits) == Len(hits) > KnockLimit

\* handleKnock: `hits.length >= 5`.
overLimit(hits) == Len(hits) >= KnockLimit

\* A rate limiter that also counts the knocks it denies.
handleKnockRateLimitGetCounting(q) ==
  /\ pc[q] = "knock_rlget"
  /\ LET rateLimitData == kvGetLive(rl[req[q].ip], now)
         hourAgo == req[q].at - Hour
         hits == IF rateLimitData # NoRec
                   THEN recentHits(rateLimitData.hits, hourAgo) ELSE <<>>
     IN  IF overLimit(hits)
           THEN /\ pc' = [pc EXCEPT ![q] = "knock_log"]
                /\ rl' = [rl EXCEPT ![req[q].ip] =
                            [hits |-> Append(Tail(hits), req[q].at),
                             expires |-> now + RateLimitTtl]]
                /\ req' = [req EXCEPT
                     ![q].data = rejectedData(req[q].ip, req[q].at,
                                              req[q].payload.from, "rate_limited"),
                     ![q].ret = knockError(429, "Too many requests.")]
           ELSE /\ pc' = [pc EXCEPT ![q] = "knock_rlput"]
                /\ rl' = rl
                /\ req' = [req EXCEPT ![q].hits = Append(hits, req[q].at)]
  /\ UNCHANGED <<kvStore, knocks, hook, now, calls, res>>

\* handleKnock: get of ratelimit:<ip>, the pruning of its hits and the check.
handleKnockRateLimitGet(q) ==
  /\ pc[q] = "knock_rlget"
  /\ LET rateLimitData == kvGetLive(rl[req[q].ip], now)
         hourAgo == req[q].at - Hour
         hits == IF rateLimitData # NoRec
                   THEN recentHits(rateLimitData.hits, hourAgo) ELSE <<>>
     IN  IF overLimit(hits)
           THEN /\ pc' = [pc EXCEPT ![q] = "knock_log"]
                /\ req' = [req EXCEPT
                     ![q].data = rejectedData(req[q].ip, req[q].at,
                                              req[q].payload.from, "rate_limited"),
                     ![q].ret = knockError(429, "Too many requests.")]
           ELSE /\ pc' = [pc EXCEPT ![q] = "knock_rlput"]
                /\ req' = [req EXCEPT ![q].hits = Append(hits, req[q].at)]
  /\ UNCHANGED <<kvStore, gateway, now, calls, res>>

\* handleKnock: put of ratelimit:<ip> with expirationTtl 3600.
handleKnockRateLimitPut(q) ==
  /\ pc[q] = "knock_rlput"
  /\ rl' = [rl EXCEPT ![req[q].ip] = [hits |-> req[q].hits,
                                      expires |-> now + RateLimitTtl]]
  /\ pc' = [pc EXCEPT ![q] = "knock_log"]
  /\ req' = [req EXCEPT
       ![q].data = acceptedData(req[q].ip, req[q].at, req[q].payload),
       ![q].ret = Response("knock", NULL, <<>>, 200, "Knock received.")]
  /\ UNCHANGED <<kvStore, knocks, hook, now, calls, res>>

\* logKnock: the put of the knock record; a rejected knock then gets its
\* error response.
logKnock(q) ==
  /\ pc[q] = "knock_log"
  /\ knocks' = Append(knocks, knockRecord(req[q].data))
  /\ IF req[q].data.status = "accepted"
       THEN /\ pc' = [pc EXCEPT ![q] = "knock_fwd"]
            /\ UNCHANGED <<req, res>>
       ELSE Finish(q, req[q].ret)
  /\ UNCHANGED <<kvStore, rl, hook, now, calls>>

\* A notification with the upgrade token masked as in the knock record.
knockNotificationRedacted(payload, t) ==
  [kind |-> "knock", from |-> payload.from, to |-> payload.to,
   referrer |-> payload.referrer, reason |-> payload.reason,
   upgrade_token |-> IF payload.upgrade_token # NULL THEN "[REDACTED]" ELSE NULL,
   nonce |-> payload.nonce, timestamp |-> t]

\* handleKnock: the structured notification posted to LOCAL_HOOK_URL.
knockNotification(payload, t) ==
  [kind |-> "knock", from |-> payload.from, to |-> payload.to,
   referrer |-> payload.referrer, reason |-> payload.reason,
   upgrade_token |-> payload.upgrade_token, nonce |-> payload.nonce,
   timestamp |-> t]

\* handleKnock after the accepted record: with LOCAL_HOOK_URL set the
\* notification is posted and the handler awaits the fetch; without it the
\* handler responds.
handleKnockForward(q) ==
  /\ pc[q] = "knock_fwd"
  /\ IF req[q].hookUrl
       THEN /\ hook' = knockNotification(req[q].payload, req[q].at)
            /\ pc' = [pc EXCEPT ![q] = "knock_fetch"]
            /\ UNCHANGED <<req, res>>
       ELSE /\ hook' = hook
            /\ Finish(q, req[q].ret)
  /\ UNCHANGED <<kvStore, rl, knocks, now, calls>>

\* The awaited fetch of handleKnock settles: it resolves, or it throws and
\* the catch logs it; either way the handler goes on to the 200 response.
\* The fetch is given no signal and no timeout: only the collaborator's
\* answer, or the failure of the connection, settles it.
handleKnockFetchSettles(q) ==
  /\ pc[q] = "knock_fetch"
  /\ Finish(q, req[q].ret)
  /\ UNCHANGED <<kvStore, gateway, now, calls>>

\* Date.now() moves on to a later instant.  The instants are minutes apart
\* and a handler takes milliseconds: no request is in flight across a move.
TickTo ==
  /\ \A q \in Procs : pc[q] = "idle"
  /\ \E t \in Instants : t > now /\ now' = t
  /\ UNCHANGED <<kvStore, gateway, calls, pc, req, res>>

\* A step of a knock after its first await.
KnockRest(q) ==
  \/ handleKnockRateLimitGet(q)
  \/ handleKnockRateLimitPut(q)
  \/ logKnock(q)
  \/ handleKnockForward(q)
  \/ handleKnockFetchSettles(q)

\* One step of a knock, in runs of up to MaxKnocks knocks of which at most
\* MaxOtherKnocks are not the plain knock of the first source address.  The
\* deployment has LOCAL_HOOK_URL set.
KnockStep(q) ==
  \/ \E ip \in Ips, payload \in KnockPayloads :
       /\ Len(knocks) < MaxKnocks
       /\ (ip # MainIp \/ payload # PlainKnock) => OtherKnocks < MaxOtherKnocks
       /\ handleKnockCall(q, ip, payload, TRUE)
  \/ KnockRest(q)

\* Knocks at the edges of the validation: the timestamp exactly five minutes
\* ahead and behind, just past five minutes ahead, unreadable, absent; from
\* absent; to absent.
EdgeKnocks ==
  { [PlainKnock EXCEPT !.skew = FiveMinutes],
    [PlainKnock EXCEPT !.skew = 0 - FiveMinutes],
    [PlainKnock EXCEPT !.skew = FiveMinutes + 1],
    [PlainKnock EXCEPT !.timestamp = "garbage"],
    [PlainKnock EXCEPT !.timestamp = NULL],
    [PlainKnock EXCEPT !.from = NULL],
    [PlainKnock EXCEPT !.to = NULL] }

\* Knocks that fail more than one check: wrong type and no nonce; no nonce
\* and a stale timestamp.
ManyFaultKnocks ==
  { [PlainKnock EXCEPT !.type = "message", !.nonce = NULL],
    [PlainKnock EXCEPT !.nonce = NULL, !.skew = 0 - (FiveMinutes + 1)] }

ProbePayloads == KnockPayloads \cup EdgeKnocks \cup ManyFaultKnocks

\* One step of a knock, in runs of up to MaxProbes knocks of any kind, with
\* LOCAL_HOOK_URL set or not.
ProbeStep(q) ==
  \/ \E ip \in Ips, payload \in ProbePayloads, hookUrl \in BOOLEAN :
       /\ Len(knocks) < MaxProbes
       /\ handleKnockCall(q, ip, payload, hookUrl)
  \/ KnockRest(q)

\* ------------------------------------------------------------------ specifications

InitStore(budget) ==
  /\ meta = [p \in Domains |-> NoRec]
  /\ statusRec = [p \in Domains |-> NULL]
  /\ endpoints = [p \in Domains |-> NULL]
  /\ keys = [p \in Domains |-> [id \in KeyIds |-> NoRec]]
  /\ rl = [ip \in Ips |-> NoRec]
  /\ knocks = <<>>
  /\ hook = NoRec
  /\ now = 0
  /\ calls = budget
  /\ pc = [q \in Procs |-> "idle"]
  /\ req = [q \in Procs |-> IdleReq]
  /\ res = [q \in Procs |-> NoRes]

\* What validateToken returns when it runs to completion on the store as it
\* is: the status check, then the scan of the listed keys for a match.
Authenticates(p, token) ==
  /\ statusAllows(statusRec[p])
  /\ \E id \in KeyIds : keyMatches(keys[p][id], token)

\* One step of a mutating call of the store.
MutStep(q) ==
  \/ \E p \in Peers, tok \in Tokens : addPeerCall(q, p, "A", "e1", tok)
  \/ \E p \in Peers : activatePeerCall(q, p)
  \/ \E p \in Peers : revokePeerCall(q, p)
  \/ \E p \in Peers, hard \in BOOLEAN : downgradeTrustCall(q, p, hard)
  \/ \E p \in Peers : recordContactCall(q, p)
  \/ \E p \in Peers, u \in Updates : updatePeerCall(q, p, u)
  \/ updatePeerPutMeta(q)
  \/ \E p \in Peers, tok \in Tokens, old \in KeyIds \cup {NoKey} :
       rotateKeyCall(q, p, tok, old)
  \/ rotateKeyGetOld(q)
  \/ rotateKeyPutOld(q)
  \/ rotateKeyPutNew(q)
  \/ rotateKeyPutMeta(q)
  \/ \E p \in Peers, id \in KeyIds : revokeKeyCall(q, p, id)
  \/ PutStep(q)

\* One step of a read-only call of the store.
ReadStep(q) ==
  \/ \E p \in Domains, tok \in Tokens : validateTokenCall(q, p, tok)
  \/ validateTokenList(q)
  \/ validateTokenGetKey(q)

\* Concurrent callers mutating the store.
Init == InitStore(MaxRaceCalls)

Next == (\E q \in Procs : MutStep(q)) \/ TickMs

Spec == Init /\ [][Next]_vars

\* Concurrent callers mutating a peer that is already stored: the store is
\* as addPeer left it at time 0.
StatusStep(q) ==
  \/ \E p \in Peers : activatePeerCall(q, p)
  \/ \E p \in Peers : revokePeerCall(q, p)
  \/ \E p \in Peers, hard \in BOOLEAN : downgradeTrustCall(q, p, hard)
  \/ \E p \in Peers : recordContactCall(q, p)
  \/ \E p \in Peers, u \in Updates : updatePeerCall(q, p, u)
  \/ updatePeerPutMeta(q)
  \/ \E p \in Peers, tok \in Tokens, old \in KeyIds \cup {NoKey} :
       rotateKeyCall(q, p, tok, old)
  \/ rotateKeyGetOld(q)
  \/ rotateKeyPutOld(q)
  \/ rotateKeyPutNew(q)
  \/ rotateKeyPutMeta(q)
  \/ PutStep(q)

InitStatus ==
  /\ meta = [p \in Domains |-> IF p \in Peers THEN createPeer(p, "A", "e1", 0)
                               ELSE NoRec]
  /\ statusRec = [p \in Domains |-> IF p \in Peers THEN "pending" ELSE NULL]
  /\ endpoints = [p \in Domains |-> IF p \in Peers THEN "e1" ELSE NULL]
  /\ keys = [p \in Domains |-> [id \in KeyIds |->
               IF p \in Peers /\ id = 0 THEN createKey(0, <<65, 97>>, 0)
               ELSE NoRec]]
  /\ rl = [ip \in Ips |-> NoRec]
  /\ knocks = <<>>
  /\ hook = NoRec
  /\ now = 0
  /\ calls = MaxStatusCalls
  /\ pc = [q \in Procs |-> "idle"]
  /\ req = [q \in Procs |-> IdleReq]
  /\ res = [q \in Procs |-> NoRes]

NextStatus == (\E q \in Procs : StatusStep(q)) \/ TickMs

SpecStatus == InitStatus /\ [][NextStatus]_vars

\* One caller: every call returns before the next one is made.
InitSeq == InitStore(MaxCalls)

NextSeq == MutStep(Caller) \/ ReadStep(Caller) \/ InboxStep(Caller) \/ TickMs

SpecSeq == InitSeq /\ [][NextSeq]_vars

\* One gateway handling knocks one after the other.
InitKnock == InitStore(0)

NextKnock == KnockStep(Caller) \/ TickTo

SpecKnock == InitKnock /\ [][NextKnock]_vars

\* One step of a gateway instance under knocks of one source address: up to
\* MaxFloodKnocks knocks, handled by instances that interleave at every await.
FloodStep(q) ==
  \/ /\ Len(knocks) + Cardinality({r \in Procs : pc[r] # "idle"}) < MaxFloodKnocks
     /\ handleKnockCall(q, MainIp, PlainKnock, TRUE)
  \/ KnockRest(q)

\* Gateway instances handling concurrent knocks of one source address.
InitFlood == InitStore(0)

NextFlood == (\E q \in Procs : FloodStep(q)) \/ TickTo

SpecFlood == InitFlood /\ [][NextFlood]_vars

\* One step of a worker instance serving /knock and /inbox while the
\* administrator activates, revokes or downgrades the stored peer.
PublicStep(q) ==
  \/ InboxStep(q)
  \/ \E ip \in Ips, payload \in KnockPayloads :
       /\ Len(knocks) + Cardinality({r \in Procs : req[r].op = "knock"}) < MaxPublicKnocks
       /\ handleKnockCall(q, ip, payload, TRUE)
  \/ KnockRest(q)
  \/ \E p \in Peers : activatePeerCall(q, p)
  \/ \E p \in Peers : revokePeerCall(q, p)
  \/ \E p \in Peers, hard \in BOOLEAN : downgradeTrustCall(q, p, hard)
  \/ PutStep(q)

\* Worker instances serving public and admin requests on a stored peer.
InitPublic ==
  /\ InitStatus!1 /\ InitStatus!2 /\ InitStatus!3 /\ InitStatus!4
  /\ rl = [ip \in Ips |-> NoRec]
  /\ knocks = <<>>
  /\ hook = NoRec
  /\ now = 0
  /\ calls = MaxPublicCalls
  /\ pc = [q \in Procs |-> "idle"]
  /\ req = [q \in Procs |-> IdleReq]
  /\ res = [q \in Procs |-> NoRes]

NextPublic == \E q \in Procs : PublicStep(q)

SpecPublic == InitPublic /\ [][NextPublic]_vars

\* One gateway handling a few knocks of every kind, one after the other.
NextProbe == ProbeStep(Caller) \/ TickTo

SpecProbe == InitKnock /\ [][NextProbe]_vars

\* One step of the worker serving its routes: the admin route adding peers,
\* /inbox, and /knock for up to MaxWorkerKnocks knocks, LOCAL_HOOK_URL set or
\* not.
WorkerStep(q) ==
  \/ \E p \in Peers, tok \in Tokens : addPeerCall(q, p, "A", "e1", tok)
  \/ PutStep(q)
  \/ InboxStep(q)
  \/ \E ip \in Ips, payload \in KnockPayloads, hookUrl \in BOOLEAN :
       /\ Len(knocks) < MaxWorkerKnocks
       /\ handleKnockCall(q, ip, payload, hookUrl)
  \/ KnockRest(q)

\* One worker serving admin, inbox and knock requests one after the other.
InitWorker == InitStore(MaxWorkerCalls)

NextWorker == WorkerStep(Caller)

SpecWorker == InitWorker /\ [][NextWorker]_vars

\* The steps a handler takes by itself once its KV awaits settle; the awaited
\* fetch of LOCAL_HOOK_URL is not among them: it settles when the collaborator
\* answers or the connection fails.
WorkerOwnStep(q) ==
  \/ PutStep(q)
  \/ handleInboxForward(q)
  \/ handleKnockRateLimitGet(q)
  \/ handleKnockRateLimitPut(q)
  \/ logKnock(q)
  \/ handleKnockForward(q)

\* The worker whose handlers always take their own steps, with a collaborator
\* that answers or not.
SpecWorkerFair == SpecWorker /\ WF_vars(WorkerOwnStep(Caller))

\* Knocks that differ only in their referrer, which is absent or names the
\* peer the store may hold: a knock that passes validation and one that does
\* not.
Referrers == {NULL} \cup Peers
VouchPayloads ==
  { [k EXCEPT !.referrer = r] :
      k \in {PlainKnock, [PlainKnock EXCEPT !.nonce = NULL]}, r \in Referrers }

\* One step of the worker while the admin adds, activates and revokes the
\* peer the knocks refer to: up to MaxVouchKnocks knocks of one source address.
VouchStep(q) ==
  \/ \E p \in Peers : addPeerCall(q, p, "A", "e1", <<65, 97>>)
  \/ \E p \in Peers : activatePeerCall(q, p)
  \/ \E p \in Peers : revokePeerCall(q, p)
  \/ PutStep(q)
  \/ \E payload \in VouchPayloads :
       /\ Len(knocks) < MaxVouchKnocks
       /\ handleKnockCall(q, MainIp, payload, TRUE)
  \/ KnockRest(q)

InitVouch == InitStore(MaxVouchCalls)

NextVouch == VouchStep(Caller)

SpecVouch == InitVouch /\ [][NextVouch]_vars

\* ------------------------------------------------------------------ trust decay

Day == 24 * 60 * 60 * 1000

\* getPeer: the meta record with the endpoints record laid over it.
getPeer(peerId) ==
  IF peerId \notin Domains THEN NoRec
  ELSE IF meta[peerId] = NoRec THEN NoRec
  ELSE [meta[peerId] EXCEPT
          !.endpoints = IF endpoints[peerId] # NULL THEN endpoints[peerId] ELSE @]

\* listPeers: the peers that have a meta key, filtered on the status of the
\* meta record.
listPeers(statusFilter) ==
  { getPeer(d) : d \in { e \in Domains :
        /\ getPeer(e) # NoRec
        /\ statusFilter = NULL \/ getPeer(e).status = statusFilter } }

\* A test that also takes a contact exactly maxMs old.
contactTooOldOrEqual(t, lastContact, maxMs) == t - lastContact >= maxMs

\* checkTrustDecay: now - lastContact > maxMs.
contactTooOld(t, lastContact, maxMs) == t - lastContact > maxMs

\* checkTrustDecay: the entry pushed for a peer.
staleEntry(peer, t) ==
  IF peer.last_contact = NoTime
    THEN [peer |-> peer, days_since_contact |-> NULL, reason |-> "never_contacted"]
    ELSE [peer |-> peer, days_since_contact |-> (t - peer.last_contact) \div Day,
          reason |-> "stale"]

\* checkTrustDecay(maxDaysWithoutContact) at time t.
checkTrustDecay(maxDaysWithoutContact, t) ==
  LET maxMs == maxDaysWithoutContact * Day
  IN  { staleEntry(peer, t) : peer \in { q \in listPeers("active") :
          \/ q.last_contact = NoTime
          \/ contactTooOld(t, q.last_contact, maxMs) } }

\* The thresholds asked for, in days; the instants of contacts and of checks.
Thresholds == 0..MaxThreshold
ContactTimes == {0, Day, 2 * Day}
DecayInstants == {2 * Day, 2 * Day + 1, 3 * Day}

\* The record of a peer added at 0, contacted at lastContact if ever, and
\* then activated, or activated and revoked.
peerWith(p, status, lastContact) ==
  LET added == createPeer(p, "A", "e1", 0)
      contacted == IF lastContact = NoTime THEN added
                   ELSE contactedMeta(added, lastContact)
      t == contacted.updated_at
  IN  CASE status = "pending" -> contacted
        [] status = "active" -> activatedMeta(contacted, t)
        [] status = "revoked" -> revokedMeta(activatedMeta(contacted, t), t)

PeerRecords(p) ==
  {NoRec} \cup { peerWith(p, status, lastContact) :
                   status \in {"pending", "active", "revoked"},
                   lastContact \in {NoTime} \cup ContactTimes }

\* A check that downgrades the peers it reports.
checkTrustDecayCallDowngrading(q, days) ==
  /\ pc[q] = "idle"
  /\ Called
  /\ Finish(q, Result("checkTrustDecay", NULL, <<>>, TRUE,
                       checkTrustDecay(days, now), NoKey))
  /\ LET reported == { e.peer.peer_id : e \in checkTrustDecay(days, now) }
     IN  /\ meta' = [d \in Domains |->
                       IF d \in reported THEN [meta[d] EXCEPT !.status = "pending"]
                       ELSE meta[d]]
         /\ statusRec' = [d \in Domains |->
                            IF d \in reported THEN "pending" ELSE statusRec[d]]
  /\ UNCHANGED <<endpoints, keys, gateway, now>>

\* PeerStore.checkTrustDecay called on the store as it is.
checkTrustDecayCall(q, days) ==
  /\ pc[q] = "idle"
  /\ Called
  /\ Finish(q, Result("checkTrustDecay", NULL, <<>>, TRUE,
                       checkTrustDecay(days, now), NoKey))
  /\ UNCHANGED <<kvStore, gateway, now>>

\* handlePeersAdmin: the GET routes, tried in the order of the code.  A path
\* is the sequence of its segments.
AdminSecret == <<75>>
AdminBearers == {NoAuth, AdminSecret, SharedSecret}
AdminGetPaths ==
  {<<"peers">>, <<"peers", "decay">>, <<"peers", "a.example">>,
   <<"peers", "x.example">>, <<"peers", "a.example", "keys">>}

\* path.match(/^\/peers\/([^\/]+)$/)
peerMatch(path) == Len(path) = 2 /\ path[1] = "peers"

handlePeersAdminGet(q, auth, path, days) ==
  /\ pc[q] = "idle"
  /\ Called
  /\ IF auth = NoAuth \/ auth # AdminSecret
       THEN Finish(q, Response("admin", NULL, auth, 401, "Unauthorized"))
     ELSE IF path = <<"peers">>
       THEN Finish(q, Response("admin", NULL, auth, 200,
                               [peers |-> listPeers(NULL)]))
     ELSE IF peerMatch(path)
       THEN IF getPeer(path[2]) = NoRec
              THEN Finish(q, Response("admin", path[2], auth, 404, "Peer not found"))
              ELSE Finish(q, Response("admin", path[2], auth, 200, getPeer(path[2])))
     ELSE IF path = <<"peers", "decay">>
       THEN Finish(q, Response("admin", NULL, auth, 200,
                               [stale_peers |-> checkTrustDecay(days, now),
                                threshold_days |-> days]))
     ELSE Finish(q, Response("admin", NULL, auth, 404, "Not found"))
  /\ UNCHANGED <<kvStore, gateway, now>>

\* One reading call on a store holding peers of every status and contact age.
DecayStep(q) ==
  \/ \E days \in Thresholds : checkTrustDecayCall(q, days)
  \/ \E auth \in AdminBearers, path \in AdminGetPaths, days \in Thresholds :
       handlePeersAdminGet(q, auth, path, days)

InitDecay ==
  /\ meta \in [Domains -> UNION { PeerRecords(d) : d \in Domains }]
  /\ \A d \in Domains : meta[d] \in PeerRecords(d)
  /\ statusRec = [d \in Domains |-> IF meta[d] = NoRec THEN NULL ELSE meta[d].status]
  /\ endpoints = [d \in Domains |-> IF meta[d] = NoRec THEN NULL ELSE "e1"]
  /\ keys = [d \in Domains |-> [id \in KeyIds |->
               IF meta[d] # NoRec /\ id = 0 THEN createKey(0, <<65, 97>>, 0)
               ELSE NoRec]]
  /\ rl = [ip \in Ips |-> NoRec]
  /\ knocks = <<>>
  /\ hook = NoRec
  /\ now \in DecayInstants
  /\ calls = MaxDecayCalls
  /\ pc = [q \in Procs |-> "idle"]
  /\ req = [q \in Procs |-> IdleReq]
  /\ res = [q \in Procs |-> NoRes]

NextDecay == DecayStep(Caller)

SpecDecay == InitDecay /\ [][NextDecay]_vars

\* An authorization check that takes any bearer.
adminAuthorizedAnyBearer(auth) == auth # NoAuth

\* handlePeersAdmin: `!auth || auth !== Bearer ADMIN_SECRET` is false.
adminAuthorized(auth) == auth # NoAuth /\ auth = AdminSecret

\* The methods and paths of requests routed to handlePeersAdmin.
AdminMethods == {"GET", "POST", "DELETE"}
AdminVerbs == {"activate", "revoke", "rotate", "downgrade", "keys"}
AdminPaths == AdminGetPaths \cup { <<"peers", "a.example", verb>> : verb \in AdminVerbs }

\* The path is /peers/<id>/<verb>.
verbMatch(path, verb) ==
  Len(path) = 3 /\ path[1] = "peers" /\ path[2] \in Domains /\ path[3] = verb

\* The bodies of the POST requests (bearer_token or new_bearer_token,
\* old_key_id, hard) and the days asked of the decay route.
AdminBodies ==
  { [bearer_token |-> <<65, 97>>, old_key_id |-> NoKey, hard |-> FALSE],
    [bearer_token |-> <<66, 66>>, old_key_id |-> 0, hard |-> TRUE],
    [bearer_token |-> <<65, 97>>, old_key_id |-> 0, hard |-> FALSE] }
AdminDays == {0, MaxThreshold}

\* handlePeersAdmin: the authorization check, then the routes in the order of
\* the code.
handlePeersAdmin(q, auth, method, path, body, days) ==
  IF ~adminAuthorized(auth)
    THEN /\ pc[q] = "idle"
         /\ Called
         /\ Finish(q, Response("admin", NULL, auth, 401, "Unauthorized"))
         /\ UNCHANGED <<kvStore, gateway, now>>
  ELSE IF method = "GET"
    THEN handlePeersAdminGet(q, auth, path, days)
  ELSE IF method = "POST" /\ path = <<"peers">>
    THEN \E p \in Peers : addPeerCall(q, p, "A", "e1", body.bearer_token)
  ELSE IF method = "POST" /\ verbMatch(path, "activate")
    THEN activatePeerCall(q, path[2])
  ELSE IF method = "POST" /\ verbMatch(path, "revoke")
    THEN revokePeerCall(q, path[2])
  ELSE IF method = "POST" /\ verbMatch(path, "rotate")
    THEN rotateKeyCall(q, path[2], body.bearer_token, body.old_key_id)
  ELSE IF method = "POST" /\ verbMatch(path, "downgrade")
    THEN downgradeTrustCall(q, path[2], body.hard)
  ELSE /\ pc[q] = "idle"
       /\ Called
       /\ Finish(q, Response("admin", NULL, auth, 404, "Not found"))
       /\ UNCHANGED <<kvStore, gateway, now>>

\* One step of a request to the admin routes.
AdminStep(q) ==
  \/ \E auth \in AdminBearers, method \in AdminMethods, path \in AdminPaths,
        body \in AdminBodies, days \in AdminDays :
       handlePeersAdmin(q, auth, method, path, body, days)
  \/ PutStep(q)
  \/ rotateKeyGetOld(q)
  \/ rotateKeyPutOld(q)
  \/ rotateKeyPutNew(q)
  \/ rotateKeyPutMeta(q)

\* The admin routes serving requests one after the other, with and without
\* the admin secret.
InitAdmin == InitStore(MaxAdminCalls)

NextAdmin == AdminStep(Caller)

SpecAdmin == InitAdmin /\ [][NextAdmin]_vars

\* ------------------------------------------------------------------ claims

\* A suspended call op of caller q returns in this step.
Returns(q, op) == pc[q] # "idle" /\ pc'[q] = "idle" /\ req[q].op = op

\* validateToken(p, token) of caller q returns in this step.
ValidateReturns(q, p, token) ==
  \/ validateTokenCall(q, p, token) /\ pc'[q] = "idle"
  \/ Returns(q, "validateToken") /\ req[q].peer = p /\ req[q].token = token

C2_FailsClosedUnlessActive ==
  [][ \A p \in Domains, s \in Tokens :
        (ValidateReturns(Caller, p, s) /\ statusRec[p] # "active")
          => ~res'[Caller].ok ]_vars

\* A validateToken on a pending peer, with the secret of its active key,
\* returned invalid.
C2_Witness ==
  \E p \in Peers :
    /\ res[Caller].op = "validateToken" /\ res[Caller].peer = p
    /\ ~res[Caller].ok
    /\ statusRec[p] = "pending"
    /\ \E id \in KeyIds : /\ keyMatches(keys[p][id], res[Caller].token)
                          /\ keys[p][id].status = "active"

\* C3: an inbox request is accepted (200) only if validateToken succeeds for
\* the sender with the bearer it presented, and a request of a sender that
\* does not authenticate neither reaches the hook nor records a contact.
C3_InboxRequiresValidCredential ==
  [][ /\ \A p \in Domains :
           (Returns(Caller, "inbox") /\ req[Caller].peer = p /\ res'[Caller].http = 200)
             => Authenticates(p, req[Caller].token)
      /\ ( /\ pc[Caller] # "idle" /\ req[Caller].op = "inbox"
           /\ ~Authenticates(req[Caller].peer, req[Caller].token) )
           => hook' = hook /\ meta' = meta ]_vars

\* C4: when rotateKey(p, c_new, k_old) returns for an active peer whose key
\* k_old authenticates c_old, both c_old and c_new authenticate.
C4_RotateKeepsOldAndNewValid ==
  [][ \A p \in Peers :
        ( /\ Returns(Caller, "rotateKey") /\ req[Caller].peer = p
          /\ statusRec[p] = "active"
          /\ req[Caller].old # NoRec )
          => \A s \in Tokens :
               (s = req[Caller].token \/ keyMatches(req[Caller].old, s))
                 => Authenticates(p, s)' ]_vars

\* C5: of two rotateKey calls on one peer that read the same version, only one
\* succeeds: a rotateKey does not return success over a meta record that
\* another successful rotateKey has already moved to the version it writes.
C5_ConcurrentRotateOneWins ==
  [][ \A q, r \in Procs :
        ( /\ q # r
          /\ Returns(q, "rotateKey")
          /\ res[r].op = "rotateKey" /\ res[r].ok /\ res[r].peer = req[q].peer )
          => meta[req[q].peer].version # req[q].meta.version ]_vars

\* C6: addPeer on a peer_id whose peer record exists returns peer_exists
\* (409) at once and leaves every stored record as it was.
C6_SecondAddPeerNoMutation ==
  [][ \A p \in Peers, tok \in Tokens :
        (addPeerCall(Caller, p, "A", "e1", tok) /\ meta[p] # NoRec)
          => /\ pc'[Caller] = "idle"
             /\ ~res'[Caller].ok
             /\ res'[Caller].info = "peer_exists"
             /\ res'[Caller].http = 409
             /\ kvStore' = kvStore ]_vars

\* A second addPeer was refused on a stored peer.
C6_Witness ==
  \E p \in Peers :
    /\ res[Caller].op = "addPeer" /\ res[Caller].peer = p
    /\ res[Caller].info = "peer_exists"
    /\ meta[p] # NoRec /\ statusRec[p] # NULL

\* C7: of two concurrent addPeer calls for one new peer_id at most one reports
\* created.
C7_ConcurrentAddPeerOneCreated ==
  \A q, r \in Procs :
    q # r => ~( /\ res[q].op = "addPeer" /\ res[q].ok
                /\ res[r].op = "addPeer" /\ res[r].ok
                /\ res[q].peer = res[r].peer )

\* The accepted knocks of source address ip in a knock log whose time is
\* later than t.
AdmittedAfter(log, ip, t) ==
  { i \in DOMAIN log : /\ log[i].ip = ip /\ log[i].status = "accepted"
                       /\ log[i].timestamp > t }

\* C8: a knock that passes validation, handled after the knocks before it,
\* is admitted (200, logged accepted) when fewer than 5 knocks of its source
\* address were admitted in the hour up to it, and is denied (429, logged
\* rate_limited) when 5 were admitted less than an hour before it.
C8_FiveKnocksPerRollingHour ==
  [][ ( /\ Returns(Caller, "knock")
        /\ knockRejection(req[Caller].payload) = "" )
        => LET own == knocks'[Len(knocks')]
               before == SubSeq(knocks', 1, Len(knocks') - 1)
               ip == req[Caller].ip
               t == req[Caller].at
           IN  /\ own.ip = ip /\ own.timestamp = t
               /\ Cardinality(AdmittedAfter(before, ip, t - Hour - 1)) < 5
                    => res'[Caller].http = 200 /\ own.status = "accepted"
               /\ Cardinality(AdmittedAfter(before, ip, t - Hour)) >= 5
                    => /\ res'[Caller].http = 429 /\ own.status = "rejected"
                       /\ own.reason = "rate_limited" ]_vars

\* Five knocks of one source address were admitted and a sixth, less than an
\* hour after the first, was denied with 429.
C8_Witness ==
  /\ Len(knocks) = 6
  /\ \A i \in 1 .. 5 : knocks[i].ip = MainIp /\ knocks[i].status = "accepted"
  /\ knocks[6].ip = MainIp /\ knocks[6].status = "rejected"
  /\ knocks[6].reason = "rate_limited"
  /\ knocks[6].timestamp - knocks[1].timestamp < Hour
  /\ knocks[6].timestamp > knocks[1].timestamp
  /\ res[Caller].op = "knock" /\ res[Caller].http = 429

\* C9: a source address with five admitted knocks, the first at minute 0 and
\* the last at minute 59, is denied with 429 when it knocks at minute 60.
C9_StillDeniedAtMinuteSixty ==
  [][ ( /\ Returns(Caller, "knock")
        /\ knockRejection(req[Caller].payload) = ""
        /\ req[Caller].at = 60 * Minute )
        => LET before == SubSeq(knocks', 1, Len(knocks') - 1)
               mine == AdmittedAfter(before, req[Caller].ip, 0 - 1)
           IN  ( /\ Cardinality(mine) = 5
                 /\ \E i \in mine : before[i].timestamp = 0
                 /\ \E i \in mine : before[i].timestamp = 59 * Minute
                 /\ \A i \in mine : before[i].timestamp <= 59 * Minute )
                 => res'[Caller].http = 429 ]_vars

\* C10: activatePeer on a peer it read as revoked leaves the peer revoked.
C10_ActivateOnlyFromPending ==
  [][ \A p \in Peers :
        ( /\ Returns(Caller, "activatePeer") /\ req[Caller].peer = p
          /\ req[Caller].meta.status = "revoked" )
          => /\ statusRec'[p] = "revoked"
             /\ meta'[p].status = "revoked" ]_vars

\* C11: downgradeTrust moves only an active peer (to pending, or to revoked
\* when hard); on a peer it read as pending or revoked it leaves the status
\* as it was, so a soft downgrade never moves a revoked peer to pending.
C11_DowngradeOnlyFromActive ==
  [][ \A p \in Peers :
        ( /\ Returns(Caller, "downgradeTrust") /\ req[Caller].peer = p
          /\ req[Caller].meta.status # "active" )
          => /\ statusRec'[p] = req[Caller].meta.status
             /\ meta'[p].status = req[Caller].meta.status ]_vars

\* The mutations of a stored peer.
Mutations == {"activatePeer", "revokePeer", "rotateKey", "updatePeer",
              "recordContact", "downgradeTrust"}

\* C12: whenever a mutation of a peer, also one interleaved with other
\* mutations of the same peer, changes the stored peer record, the version it
\* stores is greater than the version stored before.
C12_VersionStrictlyIncreases ==
  [][ \A q \in Procs, p \in Peers :
        ( /\ pc[q] # "idle" /\ req[q].op \in Mutations /\ req[q].peer = p
          /\ meta[p] # NoRec /\ meta'[p] # meta[p] )
          => meta'[p].version > meta[p].version ]_vars

\* The ids of the stored keys of peer p.
StoredKeys(ks, p) == { id \in KeyIds : ks[p][id] # NoRec }

\* C13: when addPeer returns success the peer is pending at version 1 with
\* exactly one key, active, under the returned key id and holding the digest
\* of the supplied credential; when activatePeer then returns, that credential
\* authenticates; and a validateToken that returns valid names the first
\* stored key that matches, with that key's status.
C13_AddPeerThenActivateAuthenticates ==
  [][ \A p \in Peers :
        /\ (Returns(Caller, "addPeer") /\ req[Caller].peer = p)
             => /\ res'[Caller].ok /\ res'[Caller].info = "pending"
                /\ statusRec'[p] = "pending"
                /\ meta'[p].status = "pending" /\ meta'[p].version = 1
                /\ StoredKeys(keys', p) = { res'[Caller].key_id }
                /\ \A id \in StoredKeys(keys', p) :
                     /\ keys'[p][id].status = "active"
                     /\ keys'[p][id].key_id = id
                     /\ keys'[p][id].token_hash = hashToken(req[Caller].token)
        /\ ( /\ Returns(Caller, "activatePeer") /\ req[Caller].peer = p
             /\ req[Caller].meta.version = 1 )
             => \A s \in Tokens, id \in StoredKeys(keys, p) :
                  ( /\ StoredKeys(keys, p) = {id}
                    /\ keys[p][id].status = "active"
                    /\ keys[p][id].token_hash = hashToken(s) )
                    => Authenticates(p, s)'
        /\ \A s \in Tokens :
             (ValidateReturns(Caller, p, s) /\ res'[Caller].ok)
               => \E id \in StoredKeys(keys, p) :
                    /\ keyMatches(keys[p][id], s)
                    /\ \A lower \in StoredKeys(keys, p) :
                         keyMatches(keys[p][lower], s) => id <= lower
                    /\ res'[Caller].key_id = keys[p][id].key_id
                    /\ res'[Caller].info = keys[p][id].status ]_vars

\* After addPeer and activatePeer, validateToken with the credential given to
\* addPeer returned valid, with the id of the peer's one key and status active.
C13_Witness ==
  \E p \in Peers, id \in KeyIds :
    /\ res[Caller].op = "validateToken" /\ res[Caller].peer = p
    /\ res[Caller].ok /\ res[Caller].key_id = id /\ res[Caller].info = "active"
    /\ statusRec[p] = "active" /\ meta[p].version = 2
    /\ StoredKeys(keys, p) = {id}
    /\ keys[p][id].token_hash = hashToken(res[Caller].token)

\* The reasons logged for knocks rejected at validation.
ValidationReasons == {"bad_json", "invalid_type", "missing_fields", "bad_timestamp"}

\* C14: every knock rejected at validation, whichever check it failed, gets
\* one and the same response: status 400 with the message "Bad request.".
C14_ValidationRejectsLookAlike ==
  [][ ( /\ Returns(Caller, "knock")
        /\ knockRejection(req[Caller].payload) \in ValidationReasons )
        => res'[Caller] = [op |-> "knock", peer |-> NULL, token |-> <<>>,
                           ok |-> FALSE, info |-> "Bad request.",
                           key_id |-> NoKey, http |-> 400] ]_vars

\* Two knocks were rejected at validation for different reasons, the later
\* one answered 400.
C14_Witness ==
  /\ Len(knocks) = 2
  /\ knocks[1].status = "rejected" /\ knocks[2].status = "rejected"
  /\ knocks[1].reason \in ValidationReasons
  /\ knocks[2].reason \in ValidationReasons
  /\ knocks[1].reason # knocks[2].reason
  /\ res[Caller].op = "knock" /\ res[Caller].http = 400

\* The first check a knock payload fails, in the order parse, type, required
\* fields, timestamp (within five minutes either way); "" when it passes all.
FirstFailedCheck(payload) ==
  IF ~payload.parses THEN "bad_json"
  ELSE IF payload.type # "knock" THEN "invalid_type"
  ELSE IF NULL \in {payload.from, payload.to, payload.timestamp, payload.nonce}
    THEN "missing_fields"
  ELSE IF payload.timestamp # "iso" THEN "bad_timestamp"
  ELSE IF payload.skew > FiveMinutes \/ payload.skew < 0 - FiveMinutes
    THEN "bad_timestamp"
  ELSE ""

\* C15: a knock call appends exactly one record to the knock log, at its
\* logKnock step, and no step changes a record already there; the record of a
\* knock that passed every check is accepted with no rejection reason, that of
\* any other knock is rejected with, as rejection reason, the first check it
\* failed (rate_limited for a valid knock answered 429).
C15_OneKnockRecordPerCall ==
  [][ /\ IF pc[Caller] = "knock_log"
           THEN /\ Len(knocks') = Len(knocks) + 1
                /\ SubSeq(knocks', 1, Len(knocks)) = knocks
                /\ pc'[Caller] \in {"knock_fwd", "idle"}
           ELSE knocks' = knocks /\ pc'[Caller] # "knock_fwd"
      /\ Returns(Caller, "knock")
           => LET own == knocks'[Len(knocks')]
                  failed == FirstFailedCheck(req[Caller].payload)
                  why == IF failed # "" THEN failed
                         ELSE IF res'[Caller].http = 429 THEN "rate_limited"
                         ELSE NULL
              IN  /\ pc[Caller] \in {"knock_log", "knock_fwd", "knock_fetch"}
                  /\ own.ip = req[Caller].ip /\ own.timestamp = req[Caller].at
                  /\ own.status = IF why = NULL THEN "accepted" ELSE "rejected"
                  /\ own.rejection_reason = why ]_vars

\* The upgrade tokens knocks carry.
UpgradeTokens == { payload.upgrade_token : payload \in ProbePayloads } \ {NULL}

\* The fields of a knock record, and those that hold text.
KnockFields == {"ip", "from", "to", "referrer", "reason", "nonce", "timestamp",
                "status", "rejection_reason", "has_upgrade_token"}
KnockTextFields == KnockFields \ {"timestamp", "has_upgrade_token"}

KnockAccepted(q) ==
  /\ req[q].op = "knock"
  /\ knockRejection(req[q].payload) = ""
  /\ req[q].data # NoRec
  /\ req[q].data.status = "accepted"
  /\ Len(knocks) > 0
  /\ knocks[Len(knocks)] = knockRecord(req[q].data)

\* The notification just posted carries what the knocker sent.
PostedVerbatim(payload) ==
  /\ hook' # NoRec
  /\ hook'.kind = "knock"
  /\ hook'.from = payload.from /\ hook'.to = payload.to
  /\ hook'.referrer = payload.referrer /\ hook'.reason = payload.reason
  /\ hook'.nonce = payload.nonce
  /\ hook'.upgrade_token = payload.upgrade_token

\* C17 as stated: every accepted knock is posted to the local hook, with the
\* from, to, referrer, reason, nonce and upgrade_token the knocker sent, before
\* it is answered; no step of any other knock posts anything.
C17_ForwardedIffAccepted ==
  [][ /\ pc[Caller] = "knock_fwd" => KnockAccepted(Caller)
      /\ IF pc[Caller] = "knock_fwd"
           THEN PostedVerbatim(req[Caller].payload)
           ELSE hook' = hook
      /\ (Returns(Caller, "knock") /\ res'[Caller].http = 200)
           => pc[Caller] \in {"knock_fwd", "knock_fetch"} ]_vars

\* C17 amended: in a deployment with LOCAL_HOOK_URL set, a knock is posted to
\* the local hook if and only if it was accepted, with the from, to, referrer,
\* reason, nonce and upgrade_token the knocker sent, before it is answered;
\* with LOCAL_HOOK_URL unset no knock is posted.
C17_ForwardedIffAcceptedAndHookSet ==
  [][ /\ pc[Caller] = "knock_fwd" => KnockAccepted(Caller)
      /\ IF pc[Caller] = "knock_fwd" /\ req[Caller].hookUrl
           THEN PostedVerbatim(req[Caller].payload) /\ pc'[Caller] = "knock_fetch"
           ELSE hook' = hook
      /\ (Returns(Caller, "knock") /\ res'[Caller].http = 200)
           => IF req[Caller].hookUrl THEN pc[Caller] = "knock_fetch"
              ELSE pc[Caller] = "knock_fwd"
      /\ (Returns(Caller, "knock") /\ res'[Caller].http # 200)
           => /\ pc[Caller] = "knock_log"
              /\ ~KnockAccepted(Caller) ]_vars

\* A knock with referrer, reason and upgrade token was accepted, posted to the
\* hook as sent and answered 200, after a rejected knock that posted nothing.
C17_Witness ==
  /\ Len(knocks) = 2
  /\ knocks[1].status = "rejected" /\ knocks[2].status = "accepted"
  /\ hook = knockNotification(UpgradeKnock, knocks[2].timestamp)
  /\ res[Caller].op = "knock" /\ res[Caller].http = 200
  /\ pc[Caller] = "idle"

\* C18: an accepted knock is answered 200 "received" and an authenticated,
\* well-formed inbox message 200 "delivered", whatever became of the
\* best-effort steps: the hook set or unset, the fetch resolved or thrown, the
\* contact recorded, the peer unknown, or KV failing under recordContact; and
\* after recordContact, whatever its outcome, the message is posted to the
\* hook when one is set.
C18_BestEffortStepsKeepResponse ==
  [][ /\ (Returns(Caller, "knock") /\ KnockAccepted(Caller))
           => res'[Caller] = [op |-> "knock", peer |-> NULL, token |-> <<>>,
                              ok |-> TRUE, info |-> "Knock received.",
                              key_id |-> NoKey, http |-> 200]
      /\ Returns(Caller, "inbox")
           => res'[Caller] = [op |-> "inbox", peer |-> req[Caller].payload.from,
                              token |-> SharedSecret, ok |-> TRUE,
                              info |-> "delivered", key_id |-> NoKey,
                              http |-> 200]
      /\ (pc[Caller] = "idle" /\ req'[Caller].op = "inbox")
           => /\ req'[Caller].token = SharedSecret
              /\ req'[Caller].payload.parses
              /\ req'[Caller].payload.from # NULL
              /\ req'[Caller].payload.body # NULL
              /\ pc'[Caller] \in {"puts", "in_fwd"}
      /\ (pc[Caller] = "puts" /\ req[Caller].op = "inbox")
           => pc'[Caller] = "in_fwd"
      /\ pc[Caller] = "in_fwd"
           => IF req[Caller].hookUrl
                THEN /\ hook' = inboxNotification(req[Caller].payload)
                     /\ pc'[Caller] = "in_fetch"
                ELSE hook' = hook /\ Returns(Caller, "inbox") ]_vars

\* A message from a known peer was answered 200 "delivered" and posted to the
\* hook although recordContact failed: the peer's record shows no contact.
C18_Witness ==
  /\ res[Caller].op = "inbox" /\ res[Caller].http = 200
  /\ res[Caller].peer \in Peers
  /\ meta[res[Caller].peer] # NoRec
  /\ meta[res[Caller].peer].version = 1
  /\ hook = inboxNotification([parses |-> TRUE, from |-> res[Caller].peer,
                               body |-> "hi"])
  /\ pc[Caller] = "idle"

\* C19: every accepted knock and every accepted inbox request is answered,
\* even when the collaborator never answers the forwarded call.
C19_ForwardIsTimeBounded ==
  (pc[Caller] \in {"knock_fwd", "in_fwd"}) ~> (pc[Caller] = "idle")

\* C20: an inbox request whose bearer is absent or is not the expected one is
\* answered 401 "Unauthorized" at once, whatever its body and whatever the
\* bearer: no handler step follows, nothing is written to the store, no
\* contact is recorded and nothing is posted to the hook.
C20_UnauthenticatedInboxRejectedFirst ==
  [][ \A auth \in Bearers \ {SharedSecret}, payload \in InboxPayloads,
         hookUrl \in BOOLEAN, kvUp \in BOOLEAN :
        handleInboxCall(Caller, auth, payload, hookUrl, kvUp)
          => /\ res'[Caller].op = "inbox"
             /\ res'[Caller].http = 401
             /\ res'[Caller].info = "Unauthorized"
             /\ ~res'[Caller].ok
             /\ pc'[Caller] = "idle"
             /\ req' = req
             /\ kvStore' = kvStore
             /\ hook' = hook ]_vars

\* A well-formed message from a known peer under a wrong bearer was answered
\* 401: the peer's record shows no contact and the hook got nothing.
C20_Witness ==
  /\ res[Caller].op = "inbox" /\ res[Caller].http = 401
  /\ res[Caller].token \in Tokens
  /\ \E p \in Peers : meta[p] # NoRec /\ meta[p].version = 1
  /\ hook = NoRec
  /\ pc[Caller] = "idle"

\* The bearer is the credential of a usable key of peer p.
CredentialOf(p, token) == \E id \in KeyIds : keyMatches(keys[p][id], token)

\* C21: an inbox request changes the record of a peer only to record one
\* contact (last_contact set, version up by one), and only of the peer whose
\* credential it presented, which is the peer named in its from field.
C21_ContactOnlyOfAuthenticatedPeer ==
  [][ \A p \in Domains :
        (req[Caller].op = "inbox" /\ meta'[p] # meta[p])
          => /\ meta[p] # NoRec
             /\ \E t \in 0..now : meta'[p] = contactedMeta(meta[p], t)
             /\ req[Caller].peer = p
             /\ CredentialOf(p, req[Caller].token) ]_vars

\* The peers a staleness check with the threshold days is to report: those in
\* active status never contacted or last contacted more than days days ago.
DueForReview(days) ==
  { d \in Domains :
      /\ meta[d] # NoRec
      /\ meta[d].status = "active" /\ statusRec[d] = "active"
      /\ \/ meta[d].last_contact = NoTime
         \/ now - meta[d].last_contact > days * Day }

\* The report holds one entry for each peer due for review and no other.
ReportsExactly(report, days) ==
  /\ { e.peer.peer_id : e \in report } = DueForReview(days)
  /\ Cardinality(report) = Cardinality(DueForReview(days))
  /\ \A e \in report : e.peer = getPeer(e.peer.peer_id)

\* C22 as stated: checkTrustDecay(days) returns exactly the active peers never
\* contacted (reason never_contacted, no days_since_contact) or last contacted
\* more than days days ago (reason stale, days_since_contact positive), and
\* changes nothing.
C22_StalenessReport ==
  [][ \A days \in Thresholds :
        checkTrustDecayCall(Caller, days)
          => /\ ReportsExactly(res'[Caller].info, days)
             /\ \A e \in res'[Caller].info :
                  IF e.peer.last_contact = NoTime
                    THEN e.reason = "never_contacted" /\ e.days_since_contact = NULL
                    ELSE e.reason = "stale" /\ e.days_since_contact > 0
             /\ kvStore' = kvStore ]_vars

\* C22 amended: as above, with days_since_contact the whole days since the
\* contact, at least the threshold: positive for a threshold of a day or
\* more, zero under threshold 0 for a contact less than a day old.
C22_StalenessReportWholeDays ==
  [][ \A days \in Thresholds :
        checkTrustDecayCall(Caller, days)
          => /\ ReportsExactly(res'[Caller].info, days)
             /\ \A e \in res'[Caller].info :
                  IF e.peer.last_contact = NoTime
                    THEN e.reason = "never_contacted" /\ e.days_since_contact = NULL
                    ELSE /\ e.reason = "stale"
                         /\ e.days_since_contact >= days
                         /\ e.days_since_contact * Day <= now - e.peer.last_contact
                         /\ (e.days_since_contact + 1) * Day > now - e.peer.last_contact
             /\ kvStore' = kvStore ]_vars

\* A check reported one peer as stale, a day or more after its contact, and
\* left out the other, active and contacted within the threshold.
C22_Witness ==
  /\ res[Caller].op = "checkTrustDecay"
  /\ \E e \in res[Caller].info : e.reason = "stale" /\ e.days_since_contact >= 1
  /\ \E d \in Domains :
       /\ meta[d] # NoRec
       /\ meta[d].status = "active" /\ meta[d].last_contact # NoTime
       /\ \A e \in res[Caller].info : e.peer.peer_id # d

\* C23: GET /peers/decay with the admin bearer is answered 200 with the
\* staleness report (stale_peers and threshold_days), whatever the store
\* holds, and not as the lookup of a peer named "decay".
C23_DecayRouteReturnsReport ==
  [][ \A days \in Thresholds :
        handlePeersAdminGet(Caller, AdminSecret, <<"peers", "decay">>, days)
          => /\ res'[Caller].http = 200
             /\ res'[Caller].peer = NULL
             /\ res'[Caller].info = [stale_peers |-> checkTrustDecay(days, now),
                                     threshold_days |-> days] ]_vars

\* Peer p has a key in active status.
HasActiveKey(p) ==
  \E id \in KeyIds : keys[p][id] # NoRec /\ keys[p][id].status = "active"

\* C24: validateToken returns invalid, whatever the secret, for a peer none
\* of whose keys is in active status, also when the peer's status is active.
C24_NoActiveKeyNoAuthentication ==
  [][ \A p \in Domains, s \in Tokens :
        (ValidateReturns(Caller, p, s) /\ ~HasActiveKey(p))
          => ~res'[Caller].ok ]_vars

\* C25: revokePeer on a stored peer, whatever status it read (pending, active
\* or revoked), goes on to its writes and returns success with both status
\* representations revoked; it fails only with peer_not_found, on a peer that
\* is not stored.
C25_RevokePeerFromAnyStatus ==
  [][ \A p \in Peers :
        /\ (Returns(Caller, "revokePeer") /\ req[Caller].peer = p)
             => /\ req[Caller].meta.status \in {"pending", "active", "revoked"}
                /\ res'[Caller].ok /\ res'[Caller].info = "revoked"
                /\ statusRec'[p] = "revoked"
                /\ meta'[p].status = "revoked"
        /\ revokePeerCall(Caller, p)
             => IF meta[p] = NoRec
                  THEN ~res'[Caller].ok /\ res'[Caller].info = "peer_not_found"
                  ELSE pc'[Caller] = "puts" /\ req'[Caller].op = "revokePeer" ]_vars

\* A second revokePeer, on a peer it read as revoked, has written the meta
\* record back and the peer is still revoked.
C25_Witness ==
  \E p \in Peers :
    /\ pc[Caller] = "puts" /\ req[Caller].op = "revokePeer"
    /\ req[Caller].peer = p
    /\ req[Caller].meta.status = "revoked"
    /\ Cardinality(req[Caller].pend) = 1
    /\ meta[p].version = req[Caller].meta.version + 1
    /\ meta[p].status = "revoked" /\ statusRec[p] = "revoked"

\* C26: activatePeer on a peer it read as active returns success and leaves
\* the stored peer as it was: the same meta record (status, version,
\* updated_at), the same status record, the same keys.
C26_ActivateActiveIsNoOp ==
  [][ \A p \in Peers :
        ( /\ req[Caller].op = "activatePeer" /\ req[Caller].peer = p
          /\ pc[Caller] = "puts"
          /\ req[Caller].meta.status = "active" )
          => /\ meta'[p] = req[Caller].meta
             /\ statusRec'[p] = "active"
             /\ keys'[p] = keys[p]
             /\ Returns(Caller, "activatePeer") => res'[Caller].ok ]_vars

\* The times of the knocks of the log admitted from ip after t, in log order.
AdmittedTimes(log, ip, t) ==
  LET Admitted(r) == r.ip = ip /\ r.status = "accepted" /\ r.timestamp > t
      kept == SelectSeq(log, Admitted)
  IN  [i \in 1 .. Len(kept) |-> kept[i].timestamp]

\* The response a knock is due, given only its fields other than the
\* referrer, its source address, its time and the knocks logged before it.
KnockResponseDue(payload, ip, t, before) ==
  IF knockRejection([payload EXCEPT !.referrer = NULL]) # ""
    THEN knockError(400, "Bad request.")
  ELSE IF Len(AdmittedTimes(before, ip, t - Hour)) >= KnockLimit
    THEN knockError(429, "Too many requests.")
  ELSE Response("knock", NULL, <<>>, 200, "Knock received.")

\* C27: the response to a knock, and what it does to the rate-limit window,
\* are determined by its fields other than the referrer, its source address,
\* its time and the knocks admitted before it: neither the referrer nor
\* anything in the peer store enters, and a knock writes nothing to the store.
C27_KnockOutcomeIgnoresReferrerAndStore ==
  [][ /\ Returns(Caller, "knock")
           => res'[Caller] =
                KnockResponseDue(req[Caller].payload, req[Caller].ip, req[Caller].at,
                                 SubSeq(knocks', 1, Len(knocks') - 1))
      /\ rl' # rl
           => /\ pc[Caller] = "knock_rlput"
              /\ rl' = [rl EXCEPT ![req[Caller].ip] =
                          [hits |-> Append(AdmittedTimes(knocks, req[Caller].ip,
                                                         req[Caller].at - Hour),
                                           req[Caller].at),
                           expires |-> now + RateLimitTtl]]
      /\ req[Caller].op = "knock" => kvStore' = kvStore ]_vars

\* Six knocks of one source address, with and without a referrer, were
\* handled while the peer referred to was added, activated and revoked: five
\* admitted, the sixth denied with 429.
C27_Witness ==
  /\ Len(knocks) = 6
  /\ \A i \in 1 .. 5 : knocks[i].status = "accepted"
  /\ knocks[1].referrer = NULL /\ knocks[2].referrer \in Peers
  /\ knocks[5].referrer \in Peers /\ knocks[6].status = "rejected"
  /\ res[Caller].op = "knock" /\ res[Caller].http = 429
  /\ \E p \in Peers : statusRec[p] = "revoked"

\* C28: a peer whose status record, or whose meta record's status field, is
\* revoked keeps it revoked in every later state.
C28_RevocationIsPermanent ==
  [][ \A p \in Peers :
        /\ statusRec[p] = "revoked" => statusRec'[p] = "revoked"
        /\ (IF meta[p] = NoRec THEN FALSE ELSE meta[p].status = "revoked")
             => (IF meta'[p] = NoRec THEN FALSE ELSE meta'[p].status = "revoked") ]_vars

\* C29: whenever no call is in progress, the status field of a stored peer's
\* meta record equals the peer's status record, whatever calls of
\* activatePeer, revokePeer, downgradeTrust, rotateKey, updatePeer and
\* recordContact ran on the peer and however they interleaved.
C29_StatusRepresentationsAgree ==
  (\A q \in Procs : pc[q] = "idle")
    => \A p \in Peers : meta[p] # NoRec => meta[p].status = statusRec[p]

\* C30: a key whose status is revoked does not return to retiring: no step,
\* in particular none of a rotateKey that names it as its old key, stores it
\* with status retiring, and so its credential does not authenticate through
\* it again.
C30_KeyRevocationIsPermanent ==
  [][ \A p \in Peers, id \in KeyIds :
        (IF keys[p][id] = NoRec THEN FALSE ELSE keys[p][id].status = "revoked")
          => /\ keys'[p][id] # NoRec
             /\ keys'[p][id].status # "retiring" ]_vars

\* C31: the put of a key created by addPeer or rotateKey lands on a key id
\* the peer does not use yet: it adds one key record and overwrites none,
\* also when another key of the peer was created in the same millisecond.
C31_KeyIdsAreUnique ==
  [][ \A p \in Peers, id \in KeyIds :
        ( /\ keys'[p][id] # keys[p][id]
          /\ req[Caller].op \in {"addPeer", "rotateKey"}
          /\ keys'[p][id].status = "active" )
          => /\ keys[p][id] = NoRec
             /\ StoredKeys(keys', p) = StoredKeys(keys, p) \cup {id}
             /\ Cardinality(StoredKeys(keys', p)) = Cardinality(StoredKeys(keys, p)) + 1
      ]_vars

\* C32: a knock is checked in the order parse, type, required fields,
\* timestamp, rate limit, and stops at the first check it fails: a knock that
\* fails validation is logged with that first check, answered 400, and never
\* reads or writes the rate-limit entry of its source address; the entry is
\* written only by a knock that passed all of validation, which adds one hit.
C32_ValidationRejectsLeaveWindow ==
  [][ LET why == FirstFailedCheck(req[Caller].payload)
          ip == req[Caller].ip
      IN  /\ (req[Caller].op = "knock" /\ why # "")
               => /\ pc[Caller] = "knock_log"
                  /\ rl' = rl
                  /\ knocks'[Len(knocks')].status = "rejected"
                  /\ knocks'[Len(knocks')].reason = why
                  /\ res'[Caller].http = 400
          /\ rl' # rl
               => /\ req[Caller].op = "knock" /\ why = ""
                  /\ pc[Caller] = "knock_rlput"
                  /\ \A other \in Ips \ {ip} : rl'[other] = rl[other]
                  /\ Len(rl'[ip].hits) =
                       1 + (IF kvGetLive(rl[ip], now) = NoRec THEN 0
                            ELSE Len(recentHits(rl[ip].hits, req[Caller].at - Hour)))
      ]_vars

\* A knock was admitted and the next knock of the same source address was
\* rejected at validation with 400: the window still holds the one hit.
C32_Witness ==
  /\ Len(knocks) = 2
  /\ knocks[1].status = "accepted" /\ knocks[2].status = "rejected"
  /\ knocks[2].reason \in ValidationReasons
  /\ knocks[2].ip = knocks[1].ip
  /\ rl[knocks[1].ip] # NoRec
  /\ rl[knocks[1].ip].hits = <<knocks[1].timestamp>>
  /\ res[Caller].op = "knock" /\ res[Caller].http = 400

\* The knock reaches the timestamp check: it parsed, is of type knock and has
\* all four required fields.
ReachesTimestampCheck(payload) ==
  /\ payload.parses /\ payload.type = "knock"
  /\ payload.from # NULL /\ payload.to # NULL
  /\ payload.timestamp # NULL /\ payload.nonce # NULL

\* The timestamp denotes a date at most five minutes before or after the time
\* the gateway observed.
WithinFiveMinutes(payload) ==
  /\ payload.timestamp = "iso"
  /\ payload.skew >= 0 - 5 * 60 * 1000
  /\ payload.skew <= 5 * 60 * 1000

\* The call of handleKnock with a knock that reaches the timestamp check
\* goes on to the rate limiter exactly when the timestamp is within five
\* minutes, and to the bad_timestamp rejection otherwise.
TimestampCheckDecides ==
  \A q \in Procs :
    (req'[q].op = "knock" /\ req[q].op # "knock"
       /\ ReachesTimestampCheck(req'[q].payload))
      => IF WithinFiveMinutes(req'[q].payload)
           THEN pc'[q] = "knock_rlget"
           ELSE /\ pc'[q] = "knock_log"
                /\ req'[q].data.status = "rejected"
                /\ req'[q].data.reason = "bad_timestamp"
                /\ req'[q].ret.http = 400

\* The one step of a knock that failed the timestamp check: the log record
\* and the response.
BadTimestampOnlyLogged ==
  (req[Caller].op = "knock" /\ ReachesTimestampCheck(req[Caller].payload)
     /\ ~WithinFiveMinutes(req[Caller].payload))
    => /\ pc[Caller] = "knock_log" /\ pc'[Caller] = "idle"
       /\ rl' = rl /\ hook' = hook
       /\ knocks' = Append(knocks, knockRecord(req[Caller].data))
       /\ knocks'[Len(knocks')].status = "rejected"
       /\ knocks'[Len(knocks')].reason = "bad_timestamp"
       /\ res'[Caller].http = 400

\* C33: a knock that reaches the timestamp check passes it exactly when its
\* timestamp is a date at most 5 minutes from the gateway's time; exactly 5
\* minutes passes.  A knock that fails it is logged as rejected with cause
\* bad_timestamp, answered 400, leaves the rate-limit entries alone and is
\* not posted to the local hook.
C33_TimestampWindow ==
  [][ TimestampCheckDecides /\ BadTimestampOnlyLogged ]_vars

\* A knock whose timestamp is exactly five minutes ahead was admitted, counted
\* and logged as accepted, after a knock rejected for its timestamp.
C33_Witness ==
  /\ pc[Caller] = "knock_fwd"
  /\ req[Caller].payload.skew = FiveMinutes
  /\ Len(knocks) = 2
  /\ knocks[1].status = "rejected" /\ knocks[1].reason = "bad_timestamp"
  /\ knocks[2].status = "accepted"
  /\ Len(rl[req[Caller].ip].hits) = 1

\* The rate-limit entry is written only on the way of an admitted knock.
OnlyAdmittedKnocksWrite ==
  rl' # rl => /\ pc[Caller] = "knock_rlput"
              /\ req'[Caller].ret.http = 200

\* When a denied knock returns, the entry of its source address is the one the
\* last admitted knock of that address stored: five hits ending with that
\* knock's time, expiring an hour after it.
DeniedKnockLeavesEntry ==
  ( /\ Returns(Caller, "knock") /\ res'[Caller].http = 429 )
    => LET ip == req[Caller].ip
           mine == AdmittedAfter(knocks', ip, 0 - 1)
           last == CHOOSE i \in mine : \A j \in mine : j <= i
       IN  /\ rl' = rl
           /\ knocks'[Len(knocks')].status = "rejected"
           /\ Cardinality(mine) >= 5
           /\ Len(rl[ip].hits) = 5
           /\ rl[ip].hits[5] = knocks'[last].timestamp
           /\ rl[ip].expires = knocks'[last].timestamp + RateLimitTtl

\* A valid knock that follows a denied knock of its source address is
\* admitted once fewer than five knocks of the address were admitted in the
\* hour up to it.
AdmittedAgainAfterDenial ==
  ( /\ Returns(Caller, "knock")
    /\ knockRejection(req[Caller].payload) = ""
    /\ \E i \in 1 .. Len(knocks) :
         /\ knocks[i].ip = req[Caller].ip
         /\ knocks[i].status = "rejected" /\ knocks[i].reason = "rate_limited"
    /\ Cardinality(AdmittedAfter(knocks, req[Caller].ip,
                                 req[Caller].at - Hour - 1)) < 5 )
    => /\ res'[Caller].http = 200
       /\ knocks'[Len(knocks')].status = "accepted"

\* C34: a knock denied by the rate limiter leaves the rate-limit entry of its
\* source address as it was, hits and expiry, and the source is admitted
\* again once its oldest counted hit is more than an hour old, however many
\* knocks were denied in between.
C34_DeniedKnocksLeaveWindow ==
  [][ /\ OnlyAdmittedKnocksWrite
      /\ DeniedKnockLeavesEntry
      /\ AdmittedAgainAfterDenial ]_vars

\* Five knocks were admitted, a sixth denied within the hour, and a seventh
\* admitted when the first was more than an hour old and the fifth was not.
C34_Witness ==
  /\ Len(knocks) = 7
  /\ \A i \in 1 .. 7 : knocks[i].ip = MainIp
  /\ \A i \in 1 .. 5 : knocks[i].status = "accepted"
  /\ knocks[6].status = "rejected" /\ knocks[6].reason = "rate_limited"
  /\ knocks[7].status = "accepted"
  /\ knocks[7].timestamp - knocks[1].timestamp > Hour
  /\ knocks[7].timestamp - knocks[5].timestamp < Hour
  /\ res[Caller].op = "knock" /\ res[Caller].http = 200

\* C35: the stored rate-limit entry of a source address never holds more
\* than 5 hits, whatever the interleaving of the knocks of that address.
C35_StoredHitsAtMostFive ==
  \A ip \in Ips : rl[ip] # NoRec => Len(rl[ip].hits) <= 5

\* Six knocks of one source address were admitted within one hour, two of
\* them having read the same four hits, and the stored entry holds five.
C35_Witness ==
  /\ Cardinality(AdmittedAfter(knocks, MainIp, now - Hour)) >= 6
  /\ \A q \in Procs : pc[q] = "idle"
  /\ rl[MainIp] # NoRec
  /\ Len(rl[MainIp].hits) = 5

\* The statuses the store holds: of each peer in its meta record and under
\* its status key, and of each key.
TrustState(m, st, ks) ==
  [p \in Domains |->
     [stored |-> m[p] # NoRec,
      listed |-> IF m[p] = NoRec THEN NULL ELSE m[p].status,
      status |-> st[p],
      keys   |-> [id \in KeyIds |->
                    IF ks[p][id] = NoRec THEN NULL ELSE ks[p][id].status]]]

\* C36: no step of a /knock or /inbox request changes the status of a peer,
\* in its meta record or under its status key, or the status of a key, or
\* creates a peer: statuses change only in steps of the admin operations.
C36_PublicTrafficKeepsTrust ==
  [][ \A q \in Procs :
        ( /\ req[q].op \in {"inbox", "knock"} \/ req'[q].op \in {"inbox", "knock"}
          /\ pc'[q] # pc[q] \/ req'[q] # req[q] )
          => TrustState(meta', statusRec', keys') = TrustState(meta, statusRec, keys)
    ]_vars

\* The store operations that look the peer up by its meta record first.
PeerOperations ==
  {"activatePeer", "revokePeer", "rotateKey", "updatePeer", "recordContact",
   "downgradeTrust"}

\* The admin routes that answer with the result of such an operation.
RoutedOperations == {"activatePeer", "revokePeer", "rotateKey", "downgradeTrust"}

\* C37: activatePeer, revokePeer, rotateKey, updatePeer, recordContact and
\* downgradeTrust called for a peer without a meta record return
\* peer_not_found at once (404 on the admin routes), with no key id, and no
\* record of the store is written.
C37_UnknownPeerFailsWithoutWriting ==
  [][ \A p \in Peers :
        LET returned == pc'[Caller] = "idle"
            op == IF returned THEN res'[Caller].op ELSE req'[Caller].op
            who == IF returned THEN res'[Caller].peer ELSE req'[Caller].peer
        IN  ( /\ pc[Caller] = "idle" /\ calls' = calls - 1
              /\ meta[p] = NoRec
              /\ op \in PeerOperations /\ who = p )
              => /\ returned
                 /\ ~res'[Caller].ok
                 /\ res'[Caller].info = "peer_not_found"
                 /\ res'[Caller].key_id = NoKey
                 /\ op \in RoutedOperations => res'[Caller].http = 404
                 /\ kvStore' = kvStore
                 /\ \A id \in KeyIds : keys'[p][id] = NoRec
    ]_vars

\* rotateKey for a peer that was never added has returned peer_not_found with
\* 404 and the store holds no record of the peer.
C37_Witness ==
  /\ pc[Caller] = "idle"
  /\ res[Caller].op = "rotateKey" /\ res[Caller].peer \in Peers
  /\ ~res[Caller].ok /\ res[Caller].info = "peer_not_found"
  /\ res[Caller].http = 404
  /\ meta[res[Caller].peer] = NoRec
  /\ statusRec[res[Caller].peer] = NULL
  /\ \A id \in KeyIds : keys[res[Caller].peer][id] = NoRec

\* C38: a call of checkTrustDecay, and a listing of the peers, leaves every
\* meta, status, endpoints and key record as it was, whatever the threshold
\* and whichever peers are reported: a reported peer is still active after
\* the call.
C38_StalenessCheckAndListingReadOnly ==
  [][ /\ ( /\ pc[Caller] = "idle" /\ pc'[Caller] = "idle"
           /\ res'[Caller].op = "checkTrustDecay" )
           => /\ kvStore' = kvStore
              /\ \A e \in res'[Caller].info :
                   /\ meta'[e.peer.peer_id].status = "active"
                   /\ statusRec'[e.peer.peer_id] = "active"
      /\ \A days \in Thresholds :
           handlePeersAdminGet(Caller, AdminSecret, <<"peers">>, days)
             => /\ kvStore' = kvStore
                /\ res'[Caller].info.peers = listPeers(NULL)
    ]_vars

\* A check has reported a stale peer and the peer is still active, in its
\* meta record and under its status key, with its key active.
C38_Witness ==
  /\ res[Caller].op = "checkTrustDecay"
  /\ \E e \in res[Caller].info :
       /\ e.reason = "stale"
       /\ meta[e.peer.peer_id] = e.peer
       /\ meta[e.peer.peer_id].status = "active"
       /\ statusRec[e.peer.peer_id] = "active"
       /\ keys[e.peer.peer_id][0].status = "active"

\* C39: a request to the admin routes whose authorization header is absent
\* or is not the admin bearer is answered 401 Unauthorized at once, whatever
\* its method, path and body: the response does not depend on the store, no
\* store operation is started and no record is written.
C39_UnauthorizedAdminRejectedFirst ==
  [][ \A auth \in AdminBearers \ {AdminSecret}, method \in AdminMethods,
         path \in AdminPaths, body \in AdminBodies, days \in AdminDays :
        handlePeersAdmin(Caller, auth, method, path, body, days)
          => /\ res'[Caller] = Response("admin", NULL, auth, 401, "Unauthorized")
             /\ pc'[Caller] = "idle"
             /\ req'[Caller] = IdleReq
             /\ kvStore' = kvStore
    ]_vars

\* A request bearing the inbox secret was answered 401 while the store held
\* a pending peer with its key: the peer and the key are as they were added.
C39_Witness ==
  /\ res[Caller].op = "admin" /\ res[Caller].http = 401
  /\ res[Caller].token = SharedSecret
  /\ pc[Caller] = "idle"
  /\ \E p \in Peers :
       /\ meta[p] # NoRec /\ meta[p].status = "pending" /\ meta[p].version = 1
       /\ statusRec[p] = "pending"
       /\ keys[p][0] # NoRec /\ keys[p][0].status = "active"

====
